---- MODULE Spec2Model ----
(***************************************************************************)
(* Model of sozercan/unstuck: the Planner (pkg/planner), which turns a     *)
(* DiagnosisReport into an ordered, risk-scored Plan bounded by an         *)
(* escalation ceiling, and the Applier run loop (pkg/applier), which       *)
(* executes a Plan action by action through the Executor.                  *)
(*                                                                         *)
(* Nine specifications share the module:                                   *)
(*   SpecPlan   one call of Planner.Plan on a diagnosis and a planner      *)
(*              configuration drawn from bounded sets;                     *)
(*   SpecApply  one run of Applier.Apply over a plan drawn from a bounded  *)
(*              set, one step per blocking call of the loop and, inside    *)
(*              Executor.Execute, per request of executeFinalize;          *)
(*   SpecCancel SpecApply under a context whose deadline may expire;       *)
(*   SpecOrder  OrderByDependencies on a list of actions, then on its own  *)
(*              output;                                                    *)
(*   SpecOrderPlan  SpecOrder, and OrderByDependencies on the list that    *)
(*              Planner.Plan builds, next to the call of Planner.Plan;     *)
(*   SpecCLI    the plan and apply commands, from the flag validation to   *)
(*              the call of Planner.Plan and, for plan, the output;        *)
(*   SpecRun    the apply command from the call of Planner.Plan to the     *)
(*              return of Applier.Apply over the plan it produced;         *)
(*   SpecTopo   TopologicalSort on a list of actions and an owner map;     *)
(*   SpecCluster  one run of Applier.Apply with the cluster objects the    *)
(*              Executor reads and writes followed.                        *)
(*                                                                         *)
(* Free-text fields that no decision reads (Description, ExpectedResult,   *)
(* timestamps, durations, Before/After snapshot payloads) are left out of  *)
(* the records.                                                            *)
(***************************************************************************)
EXTENDS Integers, Sequences, FiniteSets, TLC

VARIABLES
    \* ---- Planner (pkg/planner/planner.go) ----
    diagnosis,      \* the *DiagnosisReport given to Plan (NilDiagnosis for nil)
    maxEscalation,  \* Planner.maxEscalation
    allowForce,     \* Planner.allowForce
    planPc,         \* "ready" before the call of Plan, "planned" after it
    planOut,        \* what Plan returned: [plan |-> ..., err |-> ...]
    \* ---- Applier (pkg/applier) ----
    plan,           \* the *Plan given to Apply (NilPlan for nil)
    opts,           \* Applier options: dryRun, continueOnError, autoConfirm, verbose
    pc,             \* position of Apply: the next blocking call of the loop
                    \* ("finalize": the second request of executeFinalize)
    idx,            \* 1-based index of the action the loop is at
    cur,            \* actionResult under construction for action idx
    result,         \* *ApplyResult being accumulated
    applyErr,       \* error returned by Apply ("" for nil)
    calls,          \* the calls made so far: confirm / Snapshot / Execute / Verify
    reads,          \* cluster read requests issued so far
    writes,         \* cluster write requests issued so far
    ctx,            \* the context given to Apply: has its deadline expired, and
                    \* at which action of the loop it did
    cluster,        \* the objects behind the Executor's client, where a
                    \* specification follows them (NoCluster where it does not)
    fetched,        \* the namespace executeFinalize holds between its Get and
                    \* its Finalize request, where the cluster is followed
    \* ---- OrderByDependencies called on its own (pkg/planner/ordering.go) ----
    ordIn,          \* the slice given to the first call
    ordPrev,        \* the slice given to the latest call
    ordOut,         \* what the latest call returned
    ordPc,          \* "ready", "ordered" after one call, "reordered" after two
    topo,           \* TopologicalSort called on its own: arguments, position,
                    \* and what the calls returned
    \* ---- plan / apply commands (pkg/cli) ----
    cli             \* flags, arguments and position of runPlan / runApply

plannerVars == <<diagnosis, maxEscalation, allowForce, planPc, planOut>>
applierVars == <<plan, opts, pc, idx, cur, result, applyErr, calls, reads, writes, ctx,
                 cluster, fetched>>
ordererVars == <<ordIn, ordPrev, ordOut, ordPc, topo>>
vars == <<diagnosis, maxEscalation, allowForce, planPc, planOut,
          plan, opts, pc, idx, cur, result, applyErr, calls, reads, writes, ctx,
          cluster, fetched, ordIn, ordPrev, ordOut, ordPc, topo, cli>>

(***************************************************************************)
(* Bounds of the model.                                                    *)
(***************************************************************************)
MaxBlockers == 2
MaxPlanLen == 3
MaxOrderLen == 4
MaxCliBlockers == 1
MaxRunBlockers == 2
MaxTopoLen == 3
MaxTopoEdges == 2
MaxClusterPlanLen == 2

(***************************************************************************)
(* pkg/types/action.go: escalation levels, risk levels, action types.      *)
(***************************************************************************)
EscalationInfo == 0
EscalationClean == 1
EscalationFinalizer == 2
EscalationCRD == 3
EscalationForce == 4

RiskNone == "none"
RiskLow == "low"
RiskMedium == "medium"
RiskHigh == "high"
RiskCritical == "critical"
\* the zero value of the Go string type RiskLevel: a field never assigned
RiskUnset == ""

ActionInspect == "inspect"
ActionList == "list"
ActionPatch == "patch"
ActionDelete == "delete"
ActionFinalize == "finalize"
ActionWait == "wait"

\* EscalationLevel.RequiresForce
RequiresForce(level) == level >= EscalationCRD

(***************************************************************************)
(* pkg/types/report.go                                                     *)
(***************************************************************************)
TargetTypeNamespace == "namespace"
TargetTypeCRD == "crd"
TargetTypeResource == "resource"

NilDiagnosis == [nil |-> TRUE]
NilPlan == [nil |-> TRUE]

IsHealthy(r) == r.status = "Active" \/ r.status = "Bound" \/ r.status = ""

IsTerminating(r) == r.status = "Terminating"

HasDiscoveryFailures(r) == Len(r.discoveryFailures) > 0

\* types.ResourceRef
ResourceRef(kind, apiVersion, namespace, name) ==
    [kind |-> kind, apiVersion |-> apiVersion, namespace |-> namespace, name |-> name]

(***************************************************************************)
(* Strings.  Go compares strings bytewise; the names and kinds of the      *)
(* bounded inputs are listed here in that order, and strings.ToLower is    *)
(* tabulated for the kinds of the bounded inputs.                          *)
(***************************************************************************)
NameOrder == <<"", "a", "b", "c", "d">>

NameRank(s) == CHOOSE i \in 1..Len(NameOrder) : NameOrder[i] = s

\* the Go expression a < b on the names of the model
StrLess(a, b) == NameRank(a) < NameRank(b)

ToLower(s) ==
    CASE s = "Pod" -> "pod"
      [] s = "POD" -> "pod"
      [] s = "ConfigMap" -> "configmap"
      [] s = "Secret" -> "secret"
      [] s = "Service" -> "service"
      [] s = "Endpoint" -> "endpoint"
      [] s = "Endpoints" -> "endpoints"
      [] s = "Deployment" -> "deployment"
      [] s = "StatefulSet" -> "statefulset"
      [] s = "DaemonSet" -> "daemonset"
      [] s = "ReplicaSet" -> "replicaset"
      [] s = "Job" -> "job"
      [] s = "CronJob" -> "cronjob"
      [] s = "Certificate" -> "certificate"
      [] s = "Issuer" -> "issuer"
      [] s = "ClusterIssuer" -> "clusterissuer"
      [] s = "CustomResourceDefinition" -> "customresourcedefinition"
      [] s = "Namespace" -> "namespace"
      [] s = "NAMESPACE" -> "namespace"
      [] s = "Widget" -> "widget"
      [] s = "UnknownResource" -> "unknownresource"
      [] OTHER -> s

(***************************************************************************)
(* pkg/planner/ordering.go                                                 *)
(***************************************************************************)
resourcePriority(kind) ==
    LET k == ToLower(kind) IN
    CASE k \in {"pod", "configmap", "secret", "service", "endpoint", "endpoints"} -> 10
      [] k \in {"deployment", "statefulset", "daemonset", "replicaset", "job", "cronjob"} -> 20
      [] k \in {"certificate", "issuer", "clusterissuer"} -> 30
      [] k = "customresourcedefinition" -> 100
      [] k = "namespace" -> 200
      [] OTHER -> 50

resourceKey(ref) ==
    IF ref.namespace # ""
    THEN ref.kind \o "/" \o ref.namespace \o "/" \o ref.name
    ELSE ref.kind \o "/" \o ref.name

\* mutant: the higher escalation level sorts first
orderLess_LevelDescending(a, b) ==
    IF a.escalationLevel # b.escalationLevel
    THEN a.escalationLevel > b.escalationLevel
    ELSE LET pi == resourcePriority(a.target.kind)
             pj == resourcePriority(b.target.kind)
         IN IF pi # pj THEN pi < pj
            ELSE StrLess(a.target.name, b.target.name)

\* mutant: the resource priority is left out of the comparison
orderLess_NoPriority(a, b) ==
    IF a.escalationLevel # b.escalationLevel
    THEN a.escalationLevel < b.escalationLevel
    ELSE StrLess(a.target.name, b.target.name)

\* the less function given to sort.SliceStable
orderLess(a, b) ==
    IF a.escalationLevel # b.escalationLevel
    THEN a.escalationLevel < b.escalationLevel
    ELSE LET pi == resourcePriority(a.target.kind)
             pj == resourcePriority(b.target.kind)
         IN IF pi # pj THEN pi < pj
            ELSE StrLess(a.target.name, b.target.name)

\* mutant: an element that ties with one already placed is dropped
RECURSIVE StableInsert_DropsTies(_, _)
StableInsert_DropsTies(sorted, x) ==
    IF sorted = <<>> THEN <<x>>
    ELSE IF orderLess(x, Head(sorted)) THEN <<x>> \o sorted
    ELSE IF ~orderLess(Head(sorted), x) THEN sorted
    ELSE <<Head(sorted)>> \o StableInsert_DropsTies(Tail(sorted), x)

\* mutant: x goes before the elements equal to it (an unstable sort)
RECURSIVE StableInsert_BeforeEquals(_, _)
StableInsert_BeforeEquals(sorted, x) ==
    IF sorted = <<>> THEN <<x>>
    ELSE IF ~orderLess(Head(sorted), x) THEN <<x>> \o sorted
    ELSE <<Head(sorted)>> \o StableInsert_BeforeEquals(Tail(sorted), x)

\* sort.SliceStable: x goes after every element that is not greater than it
RECURSIVE StableInsert(_, _)
StableInsert(sorted, x) ==
    IF sorted = <<>> THEN <<x>>
    ELSE IF orderLess(x, Head(sorted)) THEN <<x>> \o sorted
    ELSE <<Head(sorted)>> \o StableInsert(Tail(sorted), x)

RECURSIVE SliceStable(_)
SliceStable(s) ==
    IF s = <<>> THEN <<>>
    ELSE StableInsert(SliceStable(SubSeq(s, 1, Len(s) - 1)), s[Len(s)])

\* mutant: the caller's slice is sorted in place
orderSlices_InPlace(actions) ==
    [actions |-> SliceStable(actions), sorted |-> SliceStable(actions)]

\* the two slices of OrderByDependencies when it returns: actions, the
\* caller's, and sorted, which make and copy fill with the elements of
\* actions and which alone sort.SliceStable reorders
orderSlices(actions) ==
    LET copied == [actions |-> actions,
                   sorted |-> [i \in 1..Len(actions) |-> actions[i]]]
    IN [copied EXCEPT !.sorted = SliceStable(@)]

OrderByDependencies(actions) ==
    IF Len(actions) = 0 THEN actions ELSE orderSlices(actions).sorted

(***************************************************************************)
(* pkg/planner/ordering.go: TopologicalSort.  A Go map is a function on    *)
(* the set of its keys; ranging over ownerRefs visits its keys in an order *)
(* the runtime chooses, which is the argument "order".                     *)
(***************************************************************************)
\* the resource keys of the bounded inputs, in the order of Go's a < b
KeyOrder == <<"Job/x", "Pod/a", "Pod/b", "Pod/c">>

KeyRank(k) == CHOOSE i \in 1..Len(KeyOrder) : KeyOrder[i] = k

KeyLess(a, b) == KeyRank(a) < KeyRank(b)

\* sort.Strings
RECURSIVE InsertString(_, _)
InsertString(sorted, x) ==
    IF sorted = <<>> THEN <<x>>
    ELSE IF KeyLess(x, Head(sorted)) THEN <<x>> \o sorted
    ELSE <<Head(sorted)>> \o InsertString(Tail(sorted), x)

RECURSIVE SortStrings(_)
SortStrings(q) ==
    IF q = <<>> THEN <<>>
    ELSE InsertString(SortStrings(SubSeq(q, 1, Len(q) - 1)), q[Len(q)])

\* m[k] with the zero value for a missing key, and m[k] = v
MapGet(m, k, zero) == IF k \in DOMAIN m THEN m[k] ELSE zero

MapPut(m, k, v) == [x \in DOMAIN m \cup {k} |-> IF x = k THEN v ELSE m[x]]

\* "Build in-degree map": one entry, 0, for the key of every action
inDegreeOfActions(actions) ==
    [k \in {resourceKey(actions[i].target) : i \in 1..Len(actions)} |-> 0]

\* the inner loop of "Calculate in-degrees": the owners of one key.  An
\* owner counts if inDegree has an entry for it; inDegree[key]++ makes an
\* entry for key if there was none
RECURSIVE countOwners(_, _, _)
countOwners(st, key, owners) ==
    IF owners = <<>> THEN st
    ELSE LET owner == Head(owners)
             next == IF owner \in DOMAIN st.inDegree
                     THEN [inDegree |-> MapPut(st.inDegree, key,
                                               MapGet(st.inDegree, key, 0) + 1),
                           dependents |-> MapPut(st.dependents, owner,
                                                 Append(MapGet(st.dependents, owner, <<>>),
                                                        key))]
                     ELSE st
         IN countOwners(next, key, Tail(owners))

\* the outer loop: the keys of ownerRefs in the order the range visits them
RECURSIVE countEdges(_, _, _)
countEdges(st, ownerRefs, order) ==
    IF order = <<>> THEN st
    ELSE countEdges(countOwners(st, Head(order), ownerRefs[Head(order)]),
                    ownerRefs, Tail(order))

\* the keys of in-degree 0 collected by ranging over inDegree and sorted by
\* sort.Strings: the keys are distinct, so the sorted queue is the same for
\* every order the range visits them in
RECURSIVE initialQueue(_)
initialQueue(keys) ==
    IF keys = {} THEN <<>>
    ELSE LET least == CHOOSE k \in keys : \A other \in keys : ~KeyLess(other, k)
         IN <<least>> \o initialQueue(keys \ {least})

\* the loop over dependents[current]: st = [inDegree, queue]
RECURSIVE release(_, _)
release(st, deps) ==
    IF deps = <<>> THEN st
    ELSE LET dep == Head(deps)
             degree == st.inDegree[dep] - 1
         IN release([inDegree |-> MapPut(st.inDegree, dep, degree),
                     queue |-> IF degree = 0 THEN Append(st.queue, dep) ELSE st.queue],
                    Tail(deps))

\* "Perform Kahn's algorithm": the loop over the queue
RECURSIVE kahn(_, _, _, _)
kahn(inDegree, dependents, queue, sortedKeys) ==
    IF queue = <<>> THEN sortedKeys
    ELSE LET current == Head(queue)
             st == release([inDegree |-> inDegree, queue |-> Tail(queue)],
                           MapGet(dependents, current, <<>>))
         IN kahn(st.inDegree, dependents, SortStrings(st.queue),
                 Append(sortedKeys, current))

\* mutant: the order is not reversed
Reverse_Identity(keys) == keys

\* "Reverse the order"
Reverse(keys) == [i \in 1..Len(keys) |-> keys[Len(keys) + 1 - i]]

\* "Map sorted keys back to actions": a later action replaces an earlier
\* one with the same key
actionMap(actions) ==
    [k \in {resourceKey(actions[i].target) : i \in 1..Len(actions)} |->
        LET last == CHOOSE i \in 1..Len(actions) :
                        /\ resourceKey(actions[i].target) = k
                        /\ \A j \in (i + 1)..Len(actions) :
                              resourceKey(actions[j].target) # k
        IN actions[last]]

\* the loop over sortedKeys: st = [result, seen]
RECURSIVE placeSorted(_, _, _)
placeSorted(st, byKey, sortedKeys) ==
    IF sortedKeys = <<>> THEN st
    ELSE LET key == Head(sortedKeys)
             next == IF key \in DOMAIN byKey /\ key \notin st.seen
                     THEN [result |-> Append(st.result, byKey[key]),
                           seen |-> st.seen \cup {key}]
                     ELSE st
         IN placeSorted(next, byKey, Tail(sortedKeys))

\* "Add any actions not in the sorted list"
RECURSIVE appendUnseen(_, _, _)
appendUnseen(out, seen, actions) ==
    IF actions = <<>> THEN out
    ELSE appendUnseen(IF resourceKey(Head(actions).target) \notin seen
                      THEN Append(out, Head(actions)) ELSE out,
                      seen, Tail(actions))

TopologicalSort(actions, ownerRefs, order) ==
    IF Len(actions) = 0 THEN actions
    ELSE IF DOMAIN ownerRefs = {} THEN OrderByDependencies(actions)
    ELSE LET counted == countEdges([inDegree |-> inDegreeOfActions(actions),
                                    dependents |-> <<>>], ownerRefs, order)
             queue == initialQueue({k \in DOMAIN counted.inDegree :
                                        counted.inDegree[k] = 0})
             sortedKeys == Reverse(kahn(counted.inDegree, counted.dependents,
                                        queue, <<>>))
             placed == placeSorted([result |-> <<>>, seen |-> {}],
                                   actionMap(actions), sortedKeys)
         IN appendUnseen(placed.result, placed.seen, actions)

(***************************************************************************)
(* pkg/planner: risk and command helpers                                   *)
(***************************************************************************)
riskRank(r) ==
    CASE r = RiskNone -> 0
      [] r = RiskLow -> 1
      [] r = RiskMedium -> 2
      [] r = RiskHigh -> 3
      [] r = RiskCritical -> 4
      [] OTHER -> 0

compareRisk(a, b) ==
    IF riskRank(a) < riskRank(b) THEN -1
    ELSE IF riskRank(a) > riskRank(b) THEN 1
    ELSE 0

RECURSIVE maxRiskFrom(_, _)
maxRiskFrom(actions, maxRisk) ==
    IF actions = <<>> THEN maxRisk
    ELSE maxRiskFrom(Tail(actions),
                     IF compareRisk(Head(actions).risk, maxRisk) > 0
                     THEN Head(actions).risk ELSE maxRisk)

CalculateRiskLevel(actions) ==
    IF Len(actions) = 0 THEN RiskNone ELSE maxRiskFrom(actions, RiskNone)

\* mutant: the empty commands are kept
RECURSIVE GenerateCommands_KeepsEmpty(_)
GenerateCommands_KeepsEmpty(actions) ==
    IF actions = <<>> THEN <<>>
    ELSE <<Head(actions).command>> \o GenerateCommands_KeepsEmpty(Tail(actions))

RECURSIVE GenerateCommands(_)
GenerateCommands(actions) ==
    IF actions = <<>> THEN <<>>
    ELSE (IF Head(actions).command # "" THEN <<Head(actions).command>> ELSE <<>>)
         \o GenerateCommands(Tail(actions))

RiskLevelFromEscalation(level) ==
    CASE level = EscalationInfo -> RiskNone
      [] level = EscalationClean -> RiskLow
      [] level = EscalationFinalizer -> RiskMedium
      [] level = EscalationCRD -> RiskHigh
      [] level = EscalationForce -> RiskCritical
      [] OTHER -> RiskNone

RECURSIVE FilterActionsByMaxLevel(_, _)
FilterActionsByMaxLevel(actions, maxLevel) ==
    IF actions = <<>> THEN <<>>
    ELSE (IF Head(actions).escalationLevel <= maxLevel THEN <<Head(actions)>> ELSE <<>>)
         \o FilterActionsByMaxLevel(Tail(actions), maxLevel)

HasForceActions(actions) == \E i \in 1..Len(actions) : actions[i].requiresForce

(***************************************************************************)
(* pkg/planner/planner.go: the actions of each level                       *)
(***************************************************************************)
\* types.Action as the Planner builds it (the ID is assigned after ordering)
Action(type, level, target, operation, command, risk, force) ==
    [id |-> "", type |-> type, escalationLevel |-> level, target |-> target,
     operation |-> operation, command |-> command, risk |-> risk,
     requiresForce |-> force]

generatePatchCommand(target) ==
    "kubectl patch " \o (IF target.kind = "" THEN "resource" ELSE target.kind)
        \o " " \o target.name
        \o (IF target.namespace # "" THEN " -n " \o target.namespace ELSE "")
        \o " -p '{\"metadata\":{\"finalizers\":null}}' --type=merge"

generateCRDPatchCommand(crdName) ==
    "kubectl patch crd " \o crdName
        \o " -p '{\"metadata\":{\"finalizers\":null}}' --type=merge"

generateForceFinalize(namespaceName) ==
    "kubectl get namespace " \o namespaceName
        \o " -o json | jq '.spec.finalizers = []' | kubectl replace --raw \"/api/v1/namespaces/"
        \o namespaceName \o "/finalize\" -f -"

\* mutant: the list action is emitted whether or not there are blockers
infoActions_AlwaysList(d) ==
    <<Action(ActionInspect, EscalationInfo, d.target, "inspect", "", RiskNone, FALSE),
      Action(ActionList, EscalationInfo, d.target, "list-blockers", "", RiskNone, FALSE)>>

infoActions(d) ==
    <<Action(ActionInspect, EscalationInfo, d.target, "inspect", "", RiskNone, FALSE)>>
    \o (IF Len(d.blockers) > 0
        THEN <<Action(ActionList, EscalationInfo, d.target, "list-blockers", "",
                      RiskNone, FALSE)>>
        ELSE <<>>)

cleanPathActions(d) ==
    <<Action(ActionWait, EscalationClean, d.target, "wait-controller", "", RiskLow, FALSE)>>

\* mutant: a blocker without namespace is not given the target's
finalizerRemovalAction_KeepsNamespace(blocker, namespace) ==
    LET target == ResourceRef(blocker.kind, blocker.apiVersion, blocker.namespace,
                              blocker.name)
    IN Action(ActionPatch, EscalationFinalizer, target, "remove-finalizers",
              generatePatchCommand(target), RiskMedium, FALSE)

finalizerRemovalAction(blocker, namespace) ==
    LET ns == IF blocker.namespace = "" THEN namespace ELSE blocker.namespace
        target == ResourceRef(blocker.kind, blocker.apiVersion, ns, blocker.name)
    IN Action(ActionPatch, EscalationFinalizer, target, "remove-finalizers",
              generatePatchCommand(target), RiskMedium, FALSE)

\* mutant: the action keeps the target it was given
crdFinalizerAction_KeepsTarget(target) ==
    Action(ActionPatch, EscalationCRD, target,
           "remove-crd-finalizer", generateCRDPatchCommand(target.name), RiskHigh, TRUE)

crdFinalizerAction(target) ==
    Action(ActionPatch, EscalationCRD,
           ResourceRef("CustomResourceDefinition", "apiextensions.k8s.io/v1", "", target.name),
           "remove-crd-finalizer", generateCRDPatchCommand(target.name), RiskHigh, TRUE)

\* mutant: the level-4 action does not ask for force
forceFinalize_NoForce(namespaceName) ==
    Action(ActionFinalize, EscalationForce,
           ResourceRef("Namespace", "v1", "", namespaceName),
           "force-finalize", generateForceFinalize(namespaceName), RiskCritical, FALSE)

forceFinalize(namespaceName) ==
    Action(ActionFinalize, EscalationForce,
           ResourceRef("Namespace", "v1", "", namespaceName),
           "force-finalize", generateForceFinalize(namespaceName), RiskCritical, TRUE)

\* mutant: a controller that is available but not ready is enough
hasAvailableController_AvailableOnly(d) ==
    \E i \in 1..Len(d.controllers) : d.controllers[i].available

hasAvailableController(d) ==
    \E i \in 1..Len(d.controllers) : d.controllers[i].available /\ d.controllers[i].ready

(***************************************************************************)
(* Planner.Plan, level by level                                            *)
(***************************************************************************)
\* mutant: level 1 is emitted at ceiling 1 only
PlanLevel1_AtCeilingOnly(d, maxEsc) ==
    IF maxEsc = EscalationClean /\ hasAvailableController(d)
    THEN cleanPathActions(d) ELSE <<>>

\* Level 1: clean path actions if a controller is available
PlanLevel1(d, maxEsc) ==
    IF maxEsc >= EscalationClean /\ hasAvailableController(d)
    THEN cleanPathActions(d) ELSE <<>>

\* mutant: the level-2 gate compares against the level below
PlanLevel2_GateOffByOne(d, maxEsc) ==
    IF maxEsc >= EscalationClean
    THEN [i \in 1..Len(d.blockers) |->
              finalizerRemovalAction(d.blockers[i], d.target.namespace)]
    ELSE <<>>

\* Level 2: one finalizer removal action per blocker
PlanLevel2(d, maxEsc) ==
    IF maxEsc >= EscalationFinalizer
    THEN [i \in 1..Len(d.blockers) |->
              finalizerRemovalAction(d.blockers[i], d.target.namespace)]
    ELSE <<>>

\* Level 3: CRD finalizer removal (requires force)
PlanLevel3(d, maxEsc, force) ==
    IF maxEsc >= EscalationCRD /\ force /\ d.targetType = TargetTypeCRD
    THEN <<crdFinalizerAction(d.target)>> ELSE <<>>

\* mutant: level 4 is gated on the ceiling alone
PlanLevel4_NoForceGate(d, maxEsc, force) ==
    IF maxEsc >= EscalationForce
       /\ d.targetType = TargetTypeNamespace /\ HasDiscoveryFailures(d)
    THEN <<forceFinalize(d.target.name)>> ELSE <<>>

\* mutant: level 4 does not ask for discovery failures
PlanLevel4_NoDiscoveryCheck(d, maxEsc, force) ==
    IF maxEsc >= EscalationForce /\ force /\ d.targetType = TargetTypeNamespace
    THEN <<forceFinalize(d.target.name)>> ELSE <<>>

\* Level 4: force-finalize the namespace (requires force)
PlanLevel4(d, maxEsc, force) ==
    IF maxEsc >= EscalationForce /\ force
       /\ d.targetType = TargetTypeNamespace /\ HasDiscoveryFailures(d)
    THEN <<forceFinalize(d.target.name)>> ELSE <<>>

\* fmt.Sprintf("action-%03d", n)
ActionId(n) ==
    "action-" \o (IF n < 10 THEN "00" ELSE IF n < 100 THEN "0" ELSE "") \o ToString(n)

\* mutant: the IDs are numbered from the slice index, not from index + 1
AssignIds_ZeroBased(actions) ==
    [i \in 1..Len(actions) |-> [actions[i] EXCEPT !.id = ActionId(i - 1)]]

AssignIds(actions) ==
    [i \in 1..Len(actions) |-> [actions[i] EXCEPT !.id = ActionId(i)]]

\* the plan returned for a healthy target: RiskLevel is never assigned
HealthyPlan(d, maxEsc) ==
    [target |-> d.target, maxEscalation |-> maxEsc, actions |-> <<>>,
     commands |-> <<>>, riskLevel |-> RiskUnset]

\* the slice Plan appends the actions of levels 0 to 4 to, as it is when
\* Plan hands it to OrderByDependencies
levelActions(d, maxEsc, force) ==
    infoActions(d) \o PlanLevel1(d, maxEsc) \o PlanLevel2(d, maxEsc)
        \o PlanLevel3(d, maxEsc, force) \o PlanLevel4(d, maxEsc, force)

Plan(d, maxEsc, force) ==
    IF d = NilDiagnosis
    THEN [plan |-> NilPlan, err |-> "diagnosis report is nil"]
    ELSE IF IsHealthy(d)
    THEN [plan |-> HealthyPlan(d, maxEsc), err |-> ""]
    ELSE LET actions == levelActions(d, maxEsc, force)
             orderedActions == AssignIds(OrderByDependencies(actions))
         IN [plan |-> [target |-> d.target, maxEscalation |-> maxEsc,
                       actions |-> orderedActions,
                       commands |-> GenerateCommands(orderedActions),
                       riskLevel |-> CalculateRiskLevel(orderedActions)],
             err |-> ""]

(***************************************************************************)
(* Bounded inputs of the Planner                                           *)
(***************************************************************************)
SeqsUpTo(S, n) == UNION {[1..k -> S] : k \in 0..n}

Statuses == {"Active", "Bound", "", "Terminating", "Pending"}

TargetTypes == {TargetTypeNamespace, TargetTypeCRD, TargetTypeResource}

Targets ==
    {ResourceRef("Namespace", "v1", "", "a"),
     ResourceRef("Certificate", "cert-manager.io/v1", "ns1", "b")}

BlockerPool ==
    {ResourceRef("Pod", "v1", "", "b"),
     ResourceRef("Pod", "v1", "ns2", "a"),
     ResourceRef("Certificate", "cert-manager.io/v1", "", "a"),
     ResourceRef("deployment", "apps/v1", "ns2", "c"),
     ResourceRef("", "", "", "c")}

ControllerLists ==
    {<<>>,
     <<[available |-> TRUE, ready |-> FALSE]>>,
     <<[available |-> FALSE, ready |-> TRUE], [available |-> TRUE, ready |-> TRUE]>>}

DiscoveryFailureLists == {<<>>, <<"metrics.k8s.io/v1beta1">>}

Diagnoses ==
    [target : Targets, targetType : TargetTypes, status : Statuses,
     blockers : SeqsUpTo(BlockerPool, MaxBlockers),
     discoveryFailures : DiscoveryFailureLists,
     controllers : ControllerLists]

Levels == EscalationInfo..EscalationForce

(***************************************************************************)
(* pkg/applier: Executor.  The cluster is outside the program: each call   *)
(* that reaches the API server may succeed or fail.  An outcome records    *)
(* the error returned ("" for nil) and the requests the call issued.       *)
(***************************************************************************)
ExecOutcome(err, r, w) == [err |-> err, reads |-> r, writes |-> w]

\* Executor.executePatch / executeDelete: one write request (resolveGVR never fails)
executeWrite(failure) == {ExecOutcome("", 0, 1), ExecOutcome(failure, 0, 1)}

\* Executor.executeFinalize up to the return of its first request: the
\* check of the target kind, then Namespaces().Get.  The outcome without
\* error is the Get that succeeded: the Finalize request is still to be made
executeFinalize(action) ==
    IF action.target.kind # "Namespace"
    THEN {ExecOutcome("finalize action only supports Namespace", 0, 0)}
    ELSE {ExecOutcome("failed to get namespace", 1, 0),
          ExecOutcome("", 1, 0)}

\* Executor.executeFinalize after its Get: the spec finalizers of the
\* namespace it holds are cleared and the Finalize request is made
finalizeRequest == {ExecOutcome("", 0, 1), ExecOutcome("finalize failed", 0, 1)}

\* mutant: Execute has no case for wait actions
Execute_NoWaitCase(action) ==
    CASE action.type \in {ActionInspect, ActionList} -> {ExecOutcome("", 0, 0)}
      [] action.type = ActionPatch -> executeWrite("patch failed")
      [] action.type = ActionDelete -> executeWrite("delete failed")
      [] action.type = ActionFinalize -> executeFinalize(action)
      [] OTHER -> {ExecOutcome("unknown action type", 0, 0)}

\* Executor.Execute up to its return or, for a finalize action, up to the
\* return of the Get: the outcomes this can have for the action
Execute(action) ==
    CASE action.type \in {ActionInspect, ActionList, ActionWait} -> {ExecOutcome("", 0, 0)}
      [] action.type = ActionPatch -> executeWrite("patch failed")
      [] action.type = ActionDelete -> executeWrite("delete failed")
      [] action.type = ActionFinalize -> executeFinalize(action)
      [] OTHER -> {ExecOutcome("unknown action type", 0, 0)}

VerifyOutcome(ok, err, r) == [verified |-> ok, err |-> err, reads |-> r]

\* Executor.Verify: the outcomes the call can have for this action
Verify(action) ==
    CASE action.type \in {ActionInspect, ActionList, ActionWait} ->
             {VerifyOutcome(TRUE, "", 0)}
      [] action.type \in {ActionPatch, ActionDelete, ActionFinalize} ->
             {VerifyOutcome(TRUE, "", 1), VerifyOutcome(FALSE, "", 1),
              VerifyOutcome(FALSE, "get failed", 1)}
      [] OTHER -> {VerifyOutcome(FALSE, "unknown action type for verification", 0)}

(***************************************************************************)
(* Bounded inputs of the Applier                                           *)
(***************************************************************************)
\* what fmt.Scanln can hand to confirm: <<response, error text>>
ConfirmInputs ==
    {<<"y", "">>, <<"YES", "">>, <<"n", "">>,
     <<"", "unexpected newline">>, <<"y", "expected newline">>}

ApplyActionPool ==
    {Action(ActionInspect, EscalationInfo, ResourceRef("Namespace", "v1", "", "a"),
            "inspect", "", RiskNone, FALSE),
     Action(ActionPatch, EscalationFinalizer, ResourceRef("Pod", "v1", "ns2", "a"),
            "remove-finalizers",
            generatePatchCommand(ResourceRef("Pod", "v1", "ns2", "a")), RiskMedium, FALSE),
     Action(ActionFinalize, EscalationForce, ResourceRef("Namespace", "v1", "", "a"),
            "force-finalize", generateForceFinalize("a"), RiskCritical, TRUE)}

ApplyPlans ==
    {[target |-> ResourceRef("Namespace", "v1", "", "a"),
      maxEscalation |-> EscalationForce,
      actions |-> AssignIds(as),
      commands |-> GenerateCommands(as),
      riskLevel |-> CalculateRiskLevel(as)] : as \in SeqsUpTo(ApplyActionPool, MaxPlanLen)}

ApplierOptions ==
    [dryRun : BOOLEAN, continueOnError : BOOLEAN, autoConfirm : BOOLEAN, verbose : BOOLEAN]

(***************************************************************************)
(* pkg/applier: Applier                                                    *)
(***************************************************************************)
\* the zero values of types.ApplyResult and of an actionResult's outcome
NoResult == [totalActions |-> 0, succeeded |-> 0, failed |-> 0, skipped |-> 0,
             actions |-> <<>>, exitCode |-> 0]

NoCur == [success |-> FALSE, error |-> ""]

\* the cluster where the specification does not follow its objects
NoCluster == [followed |-> FALSE]

\* executeFinalize holds no namespace
NoFetched == [held |-> FALSE]

\* TopologicalSort is not being called
TopoIdle == [pc |-> "idle"]

\* the context before its deadline
NoDeadline == [done |-> FALSE, at |-> 0]

\* mutant: a failed read of the answer is not treated as "no"
confirm_IgnoresScanError(response, scanErr) ==
    response \in {"y", "Y", "yes", "YES"}

\* Applier.confirm: response is what fmt.Scanln stored, scanErr the text of the
\* error it returned ("" for nil)
confirm(response, scanErr) ==
    IF scanErr # "" /\ scanErr # "unexpected newline"
    THEN FALSE
    ELSE response \in {"y", "Y", "yes", "YES"}

\* mutant: any failure gives exit code 1
calculateExitCode_FailedIsOne(res) ==
    IF res.failed = 0 /\ res.skipped = 0 THEN 0
    ELSE IF res.succeeded = 0 \/ res.failed > 0 THEN 1
    ELSE 2

\* mutant: skipped actions do not count against success
calculateExitCode_IgnoresSkipped(res) ==
    IF res.failed = 0 THEN 0
    ELSE IF res.succeeded = 0 THEN 1
    ELSE 2

\* Applier.calculateExitCode
calculateExitCode(res) ==
    IF res.failed = 0 /\ res.skipped = 0 THEN 0
    ELSE IF res.succeeded = 0 THEN 1
    ELSE 2

\* mutant: the prompt is shown with autoConfirm too
NeedsConfirm_IgnoresAutoConfirm(action, o) == action.requiresForce /\ ~o.dryRun

\* the condition guarding the confirmation prompt
NeedsConfirm(action, o) == action.requiresForce /\ ~o.dryRun /\ ~o.autoConfirm

\* mutant: the before snapshot is taken in dry-run too
AfterGate_SnapshotInDryRun(o) ==
    IF o.verbose THEN "snapshotBefore"
    ELSE IF o.dryRun THEN "dryRun" ELSE "execute"

\* where the loop body goes once the confirmation gate is passed
AfterGate(o) ==
    IF o.verbose /\ ~o.dryRun THEN "snapshotBefore"
    ELSE IF o.dryRun THEN "dryRun" ELSE "execute"

\* first blocking point of the loop body for an action
FirstStep(action, o) == IF NeedsConfirm(action, o) THEN "confirm" ELSE AfterGate(o)

ActionResult(action, c) == [action |-> action, success |-> c.success, error |-> c.error]

\* one entry of the call log: the call, the action it was made for, what it
\* returned (ok, err) and, for the prompt, what the operator's input was
Call(op, i, ok, err) ==
    [op |-> op, idx |-> i, ok |-> ok, err |-> err, response |-> "", scanErr |-> ""]

ConfirmCall(i, response, scanErr) ==
    [op |-> "confirm", idx |-> i, ok |-> confirm(response, scanErr), err |-> "",
     response |-> response, scanErr |-> scanErr]

\* the statements after the loop: the exit code is computed and Apply returns
Return(res) == [res EXCEPT !.exitCode = calculateExitCode(res)]

\* mutant: the loop is left after any failure, whatever continueOnError is
LoopNext_StopsOnFailure(res) ==
    /\ cur' = NoCur
    /\ IF idx < Len(plan.actions) /\ res.failed = 0
       THEN /\ result' = res
            /\ idx' = idx + 1
            /\ pc' = FirstStep(plan.actions[idx + 1], opts)
       ELSE /\ result' = Return(res)
            /\ idx' = idx
            /\ pc' = "done"

\* end of the loop body for action idx: the next action, or the end of the loop
LoopNext(res) ==
    /\ cur' = NoCur
    /\ IF idx < Len(plan.actions)
       THEN /\ result' = res
            /\ idx' = idx + 1
            /\ pc' = FirstStep(plan.actions[idx + 1], opts)
       ELSE /\ result' = Return(res)
            /\ idx' = idx
            /\ pc' = "done"

\* mutant: an Execute error never leaves the loop
LoopBreak_Continues(res) == LoopNext(res)

\* break: the loop is left at once
LoopBreak(res) ==
    /\ result' = Return(res)
    /\ pc' = "done"
    /\ idx' = idx
    /\ cur' = NoCur

\* mutant: the record is put in front of the earlier ones
AppendResult_Prepend(res, action, c) ==
    [res EXCEPT !.actions = <<ActionResult(action, c)>> \o res.actions]

AppendResult(res, action, c) ==
    [res EXCEPT !.actions = Append(res.actions, ActionResult(action, c))]


\* mutant: a nil plan is taken for a plan without actions
ApplyStart_NilAsEmpty ==
    /\ pc = "idle"
    /\ applyErr' = ""
    /\ cur' = NoCur
    /\ LET n == IF plan = NilPlan THEN 0 ELSE Len(plan.actions)
           res == [NoResult EXCEPT !.totalActions = n] IN
       IF n = 0
       THEN /\ result' = Return(res)
            /\ idx' = 0
            /\ pc' = "done"
       ELSE /\ result' = res
            /\ idx' = 1
            /\ pc' = FirstStep(plan.actions[1], opts)
    /\ UNCHANGED <<plan, opts, ctx, cluster, fetched, calls, reads, writes>>
    /\ UNCHANGED <<plannerVars, ordererVars, cli>>

\* Apply up to the first blocking point
ApplyStart ==
    /\ pc = "idle"
    /\ IF plan = NilPlan
       THEN /\ applyErr' = "plan cannot be nil"
            /\ pc' = "error"
            /\ UNCHANGED <<idx, cur, result>>
       ELSE /\ applyErr' = ""
            /\ cur' = NoCur
            /\ LET res == [NoResult EXCEPT !.totalActions = Len(plan.actions)] IN
               IF Len(plan.actions) = 0
               THEN /\ result' = Return(res)
                    /\ idx' = 0
                    /\ pc' = "done"
               ELSE /\ result' = res
                    /\ idx' = 1
                    /\ pc' = FirstStep(plan.actions[1], opts)
    /\ UNCHANGED <<plan, opts, ctx, cluster, fetched, calls, reads, writes>>
    /\ UNCHANGED <<plannerVars, ordererVars, cli>>

\* the confirmation prompt is answered
ConfirmStep ==
    /\ pc = "confirm"
    /\ \E inp \in ConfirmInputs :
         LET action == plan.actions[idx] IN
         /\ calls' = Append(calls, ConfirmCall(idx, inp[1], inp[2]))
         /\ IF confirm(inp[1], inp[2])
            THEN /\ pc' = AfterGate(opts)
                 /\ UNCHANGED <<idx, cur, result>>
            ELSE LoopNext(AppendResult([result EXCEPT !.skipped = @ + 1], action,
                                 [success |-> FALSE, error |-> "skipped by user"]))
    /\ UNCHANGED <<plan, opts, ctx, cluster, fetched, applyErr, reads, writes>>
    /\ UNCHANGED <<plannerVars, ordererVars, cli>>

\* the before snapshot (verbose, live run)
SnapshotBefore ==
    /\ pc = "snapshotBefore"
    /\ calls' = Append(calls, Call("Snapshot", idx, TRUE, ""))
    /\ reads' = reads + 1
    /\ pc' = IF opts.dryRun THEN "dryRun" ELSE "execute"
    /\ UNCHANGED <<plan, opts, ctx, cluster, fetched, idx, cur, result, applyErr, writes>>
    /\ UNCHANGED <<plannerVars, ordererVars, cli>>

\* mutant: the dry-run branch records the action without counting it
DryRunStep_NotCounted ==
    /\ pc = "dryRun"
    /\ LoopNext(AppendResult(result, plan.actions[idx], [success |-> TRUE, error |-> ""]))
    /\ UNCHANGED <<plan, opts, ctx, cluster, fetched, applyErr, calls, reads, writes>>
    /\ UNCHANGED <<plannerVars, ordererVars, cli>>

\* the dry-run branch: the action is logged and counted as succeeded
DryRunStep ==
    /\ pc = "dryRun"
    /\ LoopNext(AppendResult([result EXCEPT !.succeeded = @ + 1], plan.actions[idx],
                       [success |-> TRUE, error |-> ""]))
    /\ UNCHANGED <<plan, opts, ctx, cluster, fetched, applyErr, calls, reads, writes>>
    /\ UNCHANGED <<plannerVars, ordererVars, cli>>

\* Executor.Execute has returned err for action idx: the call is logged; an
\* error fails the action and, without continueOnError, leaves the loop
ExecuteReturns(err) ==
    LET action == plan.actions[idx] IN
    /\ calls' = Append(calls, Call("Execute", idx, err = "", err))
    /\ IF err # ""
       THEN LET res == AppendResult([result EXCEPT !.failed = @ + 1], action,
                              [success |-> FALSE, error |-> err])
            IN IF ~opts.continueOnError THEN LoopBreak(res) ELSE LoopNext(res)
       ELSE /\ pc' = "verify"
            /\ UNCHANGED <<idx, cur, result>>

\* the live branch: Executor.Execute runs up to its return or, for the
\* finalize of a namespace, up to the return of its Get, after which the
\* call is still in progress
ExecuteStep ==
    /\ pc = "execute"
    /\ \E out \in Execute(plan.actions[idx]) :
         /\ reads' = reads + out.reads
         /\ writes' = writes + out.writes
         /\ IF out.err = "" /\ plan.actions[idx].type = ActionFinalize
            THEN /\ pc' = "finalize"
                 /\ UNCHANGED <<idx, cur, result, calls>>
            ELSE ExecuteReturns(out.err)
    /\ UNCHANGED <<plan, opts, ctx, cluster, fetched, applyErr>>
    /\ UNCHANGED <<plannerVars, ordererVars, cli>>

\* the Finalize request of executeFinalize returns, and with it Execute
FinalizeStep ==
    /\ pc = "finalize"
    /\ \E out \in finalizeRequest :
         /\ reads' = reads + out.reads
         /\ writes' = writes + out.writes
         /\ ExecuteReturns(out.err)
    /\ UNCHANGED <<plan, opts, ctx, cluster, fetched, applyErr>>
    /\ UNCHANGED <<plannerVars, ordererVars, cli>>

\* mutant: only a Verify error fails the action, a false result does not
VerifyStep_IgnoresFalse ==
    /\ pc = "verify"
    /\ \E out \in Verify(plan.actions[idx]) :
         LET action == plan.actions[idx]
             c == IF out.err # ""
                  THEN [success |-> FALSE, error |-> "verification failed: " \o out.err]
                  ELSE [success |-> TRUE, error |-> ""]
             res == IF c.success THEN [result EXCEPT !.succeeded = @ + 1]
                    ELSE [result EXCEPT !.failed = @ + 1]
         IN
         /\ calls' = Append(calls, Call("Verify", idx, out.verified /\ out.err = "", out.err))
         /\ reads' = reads + out.reads
         /\ IF opts.verbose
            THEN /\ pc' = "snapshotAfter"
                 /\ cur' = c
                 /\ result' = res
                 /\ idx' = idx
            ELSE LoopNext(AppendResult(res, action, c))
    /\ UNCHANGED <<plan, opts, ctx, cluster, fetched, applyErr, writes>>
    /\ UNCHANGED <<plannerVars, ordererVars, cli>>

\* Executor.Verify returns
VerifyStep ==
    /\ pc = "verify"
    /\ \E out \in Verify(plan.actions[idx]) :
         LET action == plan.actions[idx]
             c == IF out.err # ""
                  THEN [success |-> FALSE, error |-> "verification failed: " \o out.err]
                  ELSE IF ~out.verified
                  THEN [success |-> FALSE, error |-> "post-condition not met"]
                  ELSE [success |-> TRUE, error |-> ""]
             res == IF c.success THEN [result EXCEPT !.succeeded = @ + 1]
                    ELSE [result EXCEPT !.failed = @ + 1]
         IN
         /\ calls' = Append(calls, Call("Verify", idx, out.verified /\ out.err = "", out.err))
         /\ reads' = reads + out.reads
         /\ IF opts.verbose
            THEN /\ pc' = "snapshotAfter"
                 /\ cur' = c
                 /\ result' = res
                 /\ idx' = idx
            ELSE LoopNext(AppendResult(res, action, c))
    /\ UNCHANGED <<plan, opts, ctx, cluster, fetched, applyErr, writes>>
    /\ UNCHANGED <<plannerVars, ordererVars, cli>>

\* the after snapshot (verbose), then the result is appended
SnapshotAfter ==
    /\ pc = "snapshotAfter"
    /\ calls' = Append(calls, Call("Snapshot", idx, TRUE, ""))
    /\ reads' = reads + 1
    /\ LoopNext(AppendResult(result, plan.actions[idx], cur))
    /\ UNCHANGED <<plan, opts, ctx, cluster, fetched, applyErr, writes>>
    /\ UNCHANGED <<plannerVars, ordererVars, cli>>

\* the positions of Apply inside its loop
LoopPositions ==
    {"confirm", "snapshotBefore", "dryRun", "execute", "finalize", "verify",
     "snapshotAfter"}

\* the deadline runApply put on the context expires while Apply is in its
\* loop.  Apply itself never reads ctx: it only hands it to the Executor, so
\* nothing but the context changes.  (An Executor request made with an expired
\* context fails in the client; that failure is among the outcomes Execute
\* and Verify already have.)
DeadlineExpires ==
    /\ pc \in LoopPositions
    /\ ~ctx.done
    /\ ctx' = [done |-> TRUE, at |-> idx]
    /\ UNCHANGED <<plan, opts, pc, idx, cur, result, applyErr, calls, reads, writes,
                   cluster, fetched>>
    /\ UNCHANGED <<plannerVars, ordererVars, cli>>

(***************************************************************************)
(* Applier state when idle                                                 *)
(***************************************************************************)
ApplierIdle ==
    /\ plan = NilPlan
    /\ opts = [dryRun |-> FALSE, continueOnError |-> FALSE, autoConfirm |-> FALSE,
               verbose |-> FALSE]
    /\ pc = "idle"
    /\ idx = 0
    /\ cur = NoCur
    /\ result = NoResult
    /\ applyErr = ""
    /\ calls = <<>>
    /\ reads = 0
    /\ writes = 0
    /\ ctx = NoDeadline
    /\ cluster = NoCluster
    /\ fetched = NoFetched

\* no function of ordering.go is being called on its own
OrdererIdle ==
    /\ ordIn = <<>>
    /\ ordPrev = <<>>
    /\ ordOut = <<>>
    /\ ordPc = "idle"
    /\ topo = TopoIdle

\* no command is running
CliIdle == cli = [pc |-> "idle"]

(***************************************************************************)
(* SpecPlan: one call of Planner.Plan                                      *)
(***************************************************************************)
NoPlanOut == [plan |-> NilPlan, err |-> ""]

InitPlan ==
    /\ diagnosis \in Diagnoses \cup {NilDiagnosis}
    /\ maxEscalation \in Levels
    /\ allowForce \in BOOLEAN
    /\ planPc = "ready"
    /\ planOut = NoPlanOut
    /\ ApplierIdle
    /\ OrdererIdle
    /\ CliIdle

PlanCall ==
    /\ planPc = "ready"
    /\ planOut' = Plan(diagnosis, maxEscalation, allowForce)
    /\ planPc' = "planned"
    /\ UNCHANGED <<diagnosis, maxEscalation, allowForce>>
    /\ UNCHANGED <<applierVars, ordererVars, cli>>

NextPlan == PlanCall

SpecPlan == InitPlan /\ [][NextPlan]_vars

(***************************************************************************)
(* SpecApply: one run of Applier.Apply                                     *)
(***************************************************************************)
PlannerIdle ==
    /\ diagnosis = NilDiagnosis
    /\ maxEscalation = EscalationInfo
    /\ allowForce = FALSE
    /\ planPc = "idle"
    /\ planOut = NoPlanOut

InitApply ==
    /\ plan \in ApplyPlans \cup {NilPlan}
    /\ opts \in ApplierOptions
    /\ pc = "idle"
    /\ idx = 0
    /\ cur = NoCur
    /\ result = NoResult
    /\ applyErr = ""
    /\ calls = <<>>
    /\ reads = 0
    /\ writes = 0
    /\ ctx = NoDeadline
    /\ cluster = NoCluster
    /\ fetched = NoFetched
    /\ PlannerIdle
    /\ OrdererIdle
    /\ CliIdle

NextApply ==
    \/ ApplyStart
    \/ ConfirmStep
    \/ SnapshotBefore
    \/ DryRunStep
    \/ ExecuteStep
    \/ FinalizeStep
    \/ VerifyStep
    \/ SnapshotAfter

SpecApply == InitApply /\ [][NextApply]_vars

(***************************************************************************)
(* SpecCancel: one run of Applier.Apply under a context whose deadline may *)
(* expire at any point of the loop                                         *)
(***************************************************************************)
InitCancel == InitApply

NextCancel ==
    \/ ApplyStart
    \/ ConfirmStep
    \/ SnapshotBefore
    \/ DryRunStep
    \/ ExecuteStep
    \/ FinalizeStep
    \/ VerifyStep
    \/ SnapshotAfter
    \/ DeadlineExpires

SpecCancel == InitCancel /\ [][NextCancel]_vars

(***************************************************************************)
(* SpecOrder: OrderByDependencies called on a list of actions, then again  *)
(* on what it returned                                                     *)
(***************************************************************************)
\* a level-2 patch action on kind/namespace/name, as finalizerRemovalAction builds it
PatchOf(kind, namespace, name) ==
    finalizerRemovalAction(ResourceRef(kind, "v1", namespace, name), "")

\* the four actions of TestOrderByDependencies_SortsByResourcePriority, two
\* actions that tie with the Pod on (level, priority, name), an action of an
\* unknown kind and a level-0 action
OrderActionPool ==
    {PatchOf("Namespace", "", "a"),
     PatchOf("Pod", "", "b"),
     PatchOf("CustomResourceDefinition", "", "c"),
     PatchOf("Certificate", "", "d"),
     PatchOf("Secret", "ns1", "b"),
     PatchOf("Widget", "", "a"),
     Action(ActionInspect, EscalationInfo, ResourceRef("Namespace", "v1", "", "a"),
            "inspect", "", RiskNone, FALSE)}

InitOrder ==
    /\ ordIn \in SeqsUpTo(OrderActionPool, MaxOrderLen)
    /\ ordPrev = <<>>
    /\ ordOut = <<>>
    /\ ordPc = "ready"
    /\ topo = TopoIdle
    /\ PlannerIdle
    /\ ApplierIdle
    /\ CliIdle

\* one call of OrderByDependencies: on the input, then on its own output.
\* ordPrev keeps the argument as it was given; ordIn is the slice of the
\* first caller and holds what the call has left in it
OrderCall ==
    /\ ordPc \in {"ready", "ordered"}
    /\ LET arg == IF ordPc = "ready" THEN ordIn ELSE ordOut IN
       /\ ordPrev' = arg
       /\ ordOut' = OrderByDependencies(arg)
       /\ ordIn' = IF ordPc # "ready" THEN ordIn
                   ELSE IF Len(arg) = 0 THEN arg
                   ELSE orderSlices(arg).actions
    /\ ordPc' = IF ordPc = "ready" THEN "ordered" ELSE "reordered"
    /\ UNCHANGED topo
    /\ UNCHANGED <<plannerVars, applierVars, cli>>

NextOrder == OrderCall

SpecOrder == InitOrder /\ [][NextOrder]_vars

(***************************************************************************)
(* SpecOrderPlan: OrderByDependencies called on a list of its own, as in   *)
(* SpecOrder, or on the list Planner.Plan builds for a diagnosis and a     *)
(* planner configuration, with Planner.Plan called on the same diagnosis.  *)
(***************************************************************************)
\* the planner is ready for a diagnosis, and the orderer for the list of
\* actions Plan builds for it (no list for a healthy target)
InitPlanOrder ==
    /\ diagnosis \in Diagnoses
    /\ maxEscalation \in Levels
    /\ allowForce \in BOOLEAN
    /\ planPc = "ready"
    /\ planOut = NoPlanOut
    /\ ordIn = IF IsHealthy(diagnosis) THEN <<>>
               ELSE levelActions(diagnosis, maxEscalation, allowForce)
    /\ ordPrev = <<>>
    /\ ordOut = <<>>
    /\ ordPc = "ready"
    /\ topo = TopoIdle
    /\ ApplierIdle
    /\ CliIdle

InitOrderPlan == InitOrder \/ InitPlanOrder

NextOrderPlan ==
    \/ OrderCall
    \/ PlanCall

SpecOrderPlan == InitOrderPlan /\ [][NextOrderPlan]_vars

(***************************************************************************)
(* SpecTopo: TopologicalSort on a list of actions and an owner map, called *)
(* twice with the same arguments                                           *)
(***************************************************************************)
\* patches of three resources and a second action on the first of them
TopoActionPool ==
    {PatchOf("Pod", "", "a"),
     PatchOf("Pod", "", "b"),
     PatchOf("Pod", "", "c"),
     Action(ActionInspect, EscalationInfo, ResourceRef("Pod", "v1", "", "a"),
            "inspect", "", RiskNone, FALSE)}

\* the keys of the owner map: the three resources and one that no action targets
TopoKeys == {"Pod/a", "Pod/b", "Pod/c", "Job/x"}

TopoOwnerLists == {<<>>} \cup {<<k>> : k \in TopoKeys}

\* the owner maps with at most MaxTopoEdges keys
TopoOwnerRefs ==
    UNION {[keys -> TopoOwnerLists] :
               keys \in {ks \in SUBSET TopoKeys : Cardinality(ks) <= MaxTopoEdges}}

\* the orders in which a range over a map with these keys can visit them
IterationOrders(keys) ==
    {order \in [1..Cardinality(keys) -> keys] :
        \A k \in keys : \E i \in 1..Cardinality(keys) : order[i] = k}

InitTopo ==
    /\ topo \in [pc : {"ready"}, actions : SeqsUpTo(TopoActionPool, MaxTopoLen),
                  ownerRefs : TopoOwnerRefs, out : {<<>>}, again : {<<>>}]
    /\ ordIn = <<>>
    /\ ordPrev = <<>>
    /\ ordOut = <<>>
    /\ ordPc = "idle"
    /\ PlannerIdle
    /\ ApplierIdle
    /\ CliIdle

\* one call of TopologicalSort: the first, then a second with the same
\* arguments; the runtime chooses the order of each range over ownerRefs
TopoCall ==
    /\ topo.pc \in {"ready", "sorted"}
    /\ \E order \in IterationOrders(DOMAIN topo.ownerRefs) :
         LET out == TopologicalSort(topo.actions, topo.ownerRefs, order) IN
         topo' = IF topo.pc = "ready"
                 THEN [topo EXCEPT !.pc = "sorted", !.out = out]
                 ELSE [topo EXCEPT !.pc = "resorted", !.again = out]
    /\ UNCHANGED <<ordIn, ordPrev, ordOut, ordPc>>
    /\ UNCHANGED <<plannerVars, applierVars, cli>>

NextTopo == TopoCall

SpecTopo == InitTopo /\ [][NextTopo]_vars

(***************************************************************************)
(* SpecCLI: the plan and apply commands (runPlan, runApply) from the flag  *)
(* validation to the call of Planner.Plan and, for plan, the output of the *)
(* plan.  The cluster, the kubeconfig and stdout are outside the program:  *)
(* building the client and running a detector may fail, a detector returns *)
(* one of the reports its code can build, and a write of the JSON encoder  *)
(* to stdout may fail.                                                     *)
(***************************************************************************)
\* mutant: --allow-force is not asked for
validateFlags_NoForceCheck(maxEsc, force) ==
    IF maxEsc < 0 \/ maxEsc > 4 THEN "max-escalation must be between 0 and 4"
    ELSE ""

\* "Validate flags" of runPlan and runApply: the error returned ("" for none)
validateFlags(maxEsc, force) ==
    IF maxEsc < 0 \/ maxEsc > 4 THEN "max-escalation must be between 0 and 4"
    ELSE IF maxEsc >= 3 /\ ~force
    THEN "--allow-force is required for escalation level " \o ToString(maxEsc)
             \o " or higher"
    ELSE ""

\* the fields of a DiagnosisReport the Planner reads; no detector sets Controllers
Report(target, targetType, status, blockers, failures) ==
    [target |-> target, targetType |-> targetType, status |-> status,
     blockers |-> blockers, discoveryFailures |-> failures, controllers |-> <<>>]

\* NamespaceDetector.Detect / CRDDetector.Detect: the reports the call can return
TargetReports(target, targetType) ==
    {Report(target, targetType, "Active", <<>>, <<>>)}
    \cup {Report(target, targetType, "Terminating", b, f) :
              b \in SeqsUpTo(BlockerPool, MaxCliBlockers), f \in DiscoveryFailureLists}

\* ResourceDetector.Detect: a terminating resource is its own only blocker
ResourceReports(target) ==
    {Report(target, TargetTypeResource, "Active", <<>>, <<>>),
     Report(target, TargetTypeResource, "Terminating", <<target>>, <<>>)}

\* the switch on args[0]: the reports the chosen detector can return
Detect(targetType, targetName) ==
    CASE targetType \in {"namespace", "ns"} ->
             TargetReports(ResourceRef("Namespace", "v1", "", targetName),
                           TargetTypeNamespace)
      [] targetType \in {"crd", "customresourcedefinition"} ->
             TargetReports(ResourceRef("CustomResourceDefinition",
                                       "apiextensions.k8s.io/v1", "", targetName),
                           TargetTypeCRD)
      [] OTHER -> ResourceReports(ResourceRef("Pod", "v1", "", targetName))

\* the message of the "name is required" error for args[0]
NameRequired(targetType) ==
    CASE targetType \in {"namespace", "ns"} -> "namespace name is required"
      [] targetType \in {"crd", "customresourcedefinition"} -> "CRD name is required"
      [] OTHER -> "resource name is required"

\* GetOutputFormat: the --output flag, or the format chosen for stdout
GetOutputFormat(output, isTerminal) ==
    IF output # "" THEN output
    ELSE IF isTerminal THEN "text"
    ELSE "json"

\* Printer.Print / PrintDiagnosis: the errors the call can return ("" for
\* nil).  The JSON encoder, used for json and yaml, returns the error of
\* its write to stdout; printText always returns nil
PrintDiagnosis(format) ==
    IF format \in {"json", "yaml"} THEN {"", "write failed"} ELSE {""}

\* Printer.PrintPlan: the errors the call can return ("" for nil);
\* printPlanText always returns nil
PrintPlan(format) ==
    IF format \in {"json", "yaml"} THEN {"", "write failed"} ELSE {""}

Commands == {"plan", "apply"}

\* values of --output ("" when the flag is not given)
OutputFlags == {"", "text", "json", "yaml"}

\* values of --max-escalation: the levels and one value on each side of them
FlagValues == (EscalationInfo - 1)..(EscalationForce + 1)

CliTargetTypes == {"namespace", "crd", "pod"}

CliTargetNames == {"", "a"}

CliExit(err) == [cli EXCEPT !.pc = "exit", !.err = err]

InitCLI ==
    /\ cli \in [command : Commands, maxEscalation : FlagValues, allowForce : BOOLEAN,
                targetType : CliTargetTypes, targetName : CliTargetNames,
                verbose : BOOLEAN, output : OutputFlags, isTerminal : BOOLEAN,
                pc : {"start"}, err : {""}, clientBuilt : {FALSE},
                detectorRan : {FALSE}]
    /\ PlannerIdle
    /\ ApplierIdle
    /\ OrdererIdle

\* "Validate flags"
CliValidate ==
    /\ cli.pc = "start"
    /\ LET err == validateFlags(cli.maxEscalation, cli.allowForce) IN
       cli' = IF err # "" THEN CliExit(err) ELSE [cli EXCEPT !.pc = "client"]
    /\ UNCHANGED <<plannerVars, applierVars, ordererVars>>

\* "Build Kubernetes client"
CliNewClient ==
    /\ cli.pc = "client"
    /\ \E ok \in BOOLEAN :
         cli' = IF ok THEN [cli EXCEPT !.pc = "detect", !.clientBuilt = TRUE]
                ELSE CliExit("failed to create Kubernetes client")
    /\ UNCHANGED <<plannerVars, applierVars, ordererVars>>

\* "run diagnosis": the detector for args[0] runs and returns a report or an error
CliDetect ==
    /\ cli.pc = "detect"
    /\ IF cli.targetName = ""
       THEN /\ cli' = CliExit(NameRequired(cli.targetType))
            /\ UNCHANGED diagnosis
       ELSE \/ /\ cli' = [CliExit("detect failed") EXCEPT !.detectorRan = TRUE]
               /\ UNCHANGED diagnosis
            \/ \E report \in Detect(cli.targetType, cli.targetName) :
                  /\ cli' = [cli EXCEPT !.pc = "planner", !.detectorRan = TRUE]
                  /\ diagnosis' = report
    /\ UNCHANGED <<maxEscalation, allowForce, planPc, planOut>>
    /\ UNCHANGED <<applierVars, ordererVars>>

\* from the detector's return to planner.NewPlanner with the flags: runApply
\* first prints the report if --verbose is given and returns the error of
\* that; runPlan prints nothing here
CliNewPlanner ==
    /\ cli.pc = "planner"
    /\ \E err \in (IF cli.command = "apply" /\ cli.verbose
                   THEN PrintDiagnosis(GetOutputFormat(cli.output, cli.isTerminal))
                   ELSE {""}) :
         IF err # ""
         THEN /\ cli' = CliExit(err)
              /\ UNCHANGED <<maxEscalation, allowForce, planPc>>
         ELSE /\ maxEscalation' = cli.maxEscalation
              /\ allowForce' = cli.allowForce
              /\ planPc' = "ready"
              /\ cli' = [cli EXCEPT !.pc = "plan"]
    /\ UNCHANGED <<diagnosis, planOut>>
    /\ UNCHANGED <<applierVars, ordererVars>>

\* after p.Plan(report): runPlan prints the plan and returns the error of
\* that; runApply returns if the plan has no actions and otherwise goes on
\* to Applier.Apply
CliAfterPlan ==
    /\ cli.pc = "plan"
    /\ planPc = "planned"
    /\ \E err \in (IF planOut.err = "" /\ cli.command = "plan"
                   THEN PrintPlan(GetOutputFormat(cli.output, cli.isTerminal))
                   ELSE {""}) :
         cli' = IF planOut.err # "" THEN CliExit("failed to generate plan")
                ELSE IF cli.command = "plan" THEN CliExit(err)
                ELSE IF Len(planOut.plan.actions) = 0 THEN CliExit("")
                ELSE [cli EXCEPT !.pc = "apply"]
    /\ UNCHANGED <<plannerVars, applierVars, ordererVars>>

NextCLI ==
    \/ CliValidate
    \/ CliNewClient
    \/ CliDetect
    \/ CliNewPlanner
    \/ PlanCall
    \/ CliAfterPlan

SpecCLI == InitCLI /\ [][NextCLI]_vars

(***************************************************************************)
(* SpecRun: Planner.Plan followed by Applier.Apply over the plan it        *)
(* returned, as runApply composes them from p.Plan(report) to the return   *)
(* of app.Apply.                                                           *)
(***************************************************************************)
RunTargets ==
    {<<ResourceRef("Namespace", "v1", "", "a"), TargetTypeNamespace>>,
     <<ResourceRef("CustomResourceDefinition", "apiextensions.k8s.io/v1", "", "a"),
       TargetTypeCRD>>}

RunBlockerPool ==
    {ResourceRef("Pod", "v1", "", "b"),
     ResourceRef("Certificate", "cert-manager.io/v1", "", "a")}

\* the reports the namespace and CRD detectors can hand to the planner
RunReports ==
    {Report(t[1], t[2], "Active", <<>>, <<>>) : t \in RunTargets}
    \cup {Report(t[1], t[2], "Terminating", b, f) :
              t \in RunTargets, b \in SeqsUpTo(RunBlockerPool, MaxRunBlockers),
              f \in DiscoveryFailureLists}

\* the same reports with the Controllers field filled in by the caller
RunReportsWithController ==
    {[r EXCEPT !.controllers = <<[available |-> TRUE, ready |-> TRUE]>>] :
         r \in {t \in RunReports : t.status = "Terminating"}}

InitRun ==
    /\ diagnosis \in RunReports \cup RunReportsWithController
    /\ maxEscalation \in Levels
    /\ allowForce \in BOOLEAN
    /\ planPc = "ready"
    /\ planOut = NoPlanOut
    /\ ApplierIdle
    /\ OrdererIdle
    /\ CliIdle

\* applier.NewApplier with the flags, for a plan that has actions (runApply
\* returns before this point on a plan error or a plan without actions)
RunNewApplier ==
    /\ planPc = "planned"
    /\ plan = NilPlan
    /\ planOut.err = ""
    /\ Len(planOut.plan.actions) > 0
    /\ plan' = planOut.plan
    /\ opts' \in ApplierOptions
    /\ UNCHANGED <<pc, idx, cur, result, applyErr, calls, reads, writes, ctx, cluster, fetched>>
    /\ UNCHANGED <<plannerVars, ordererVars, cli>>

\* app.Apply(ctx, plan): called with the plan p.Plan returned
RunApplyStart ==
    /\ plan # NilPlan
    /\ ApplyStart

NextRun ==
    \/ PlanCall
    \/ RunNewApplier
    \/ RunApplyStart
    \/ ConfirmStep
    \/ SnapshotBefore
    \/ DryRunStep
    \/ ExecuteStep
    \/ FinalizeStep
    \/ VerifyStep
    \/ SnapshotAfter

SpecRun == InitRun /\ [][NextRun]_vars

(***************************************************************************)
(* SpecCluster: one run of Applier.Apply with the objects behind the       *)
(* Executor's client followed.  cluster maps the resource key of a target  *)
(* to its object: does it exist, has it metadata.finalizers, has it        *)
(* spec.finalizers (namespaces), has it a deletionTimestamp.  Nothing but  *)
(* the Executor's requests changes the objects.  A request may also fail   *)
(* in the client or the server without an effect.  What a request that     *)
(* succeeds does to an object is the API server's doing, which is not code *)
(* of the repository: AfterUpdate, PatchFinalizersNull, FinalizeNamespace  *)
(* and DeleteObject state it.                                              *)
(***************************************************************************)
Gone == [exists |-> FALSE, finalizers |-> FALSE, specFinalizers |-> FALSE,
         deleting |-> FALSE]

Object(finalizers, specFinalizers, deleting) ==
    [exists |-> TRUE, finalizers |-> finalizers, specFinalizers |-> specFinalizers,
     deleting |-> deleting]

\* the API server removes an object that has a deletionTimestamp as soon as
\* an update leaves it without finalizers
AfterUpdate(obj) ==
    IF obj.exists /\ obj.deleting /\ ~obj.finalizers /\ ~obj.specFinalizers
    THEN Gone ELSE obj

\* what the server does for Patch with {"metadata":{"finalizers":null}}
PatchFinalizersNull(obj) == AfterUpdate([obj EXCEPT !.finalizers = FALSE])

\* what the server does for Finalize with ns.Spec.Finalizers = nil
FinalizeNamespace(obj) == AfterUpdate([obj EXCEPT !.specFinalizers = FALSE])

\* what the server does for Delete: an object with finalizers is marked
\* with a deletionTimestamp, one without is removed
DeleteObject(obj) ==
    IF obj.finalizers \/ obj.specFinalizers THEN [obj EXCEPT !.deleting = TRUE] ELSE Gone

\* the object a Get for this key finds (Gone: the Get fails with "not found")
Lookup(cl, key) == IF key \in DOMAIN cl THEN cl[key] ELSE Gone

\* the errors a Get can return whatever the object is: a request that
\* failed, and a failure of the client whose text holds "not found" (the
\* exec credential plugin of the kubeconfig is not installed)
GetFailures == {"get failed", "executable file not found in $PATH"}

\* the errors a Get for this object can return ("" for nil)
GetErrors(obj) == GetFailures \cup (IF obj.exists THEN {""} ELSE {"not found"})

\* strings.Contains(err.Error(), "not found") on the errors of a Get
ContainsNotFound(err) == err \in {"not found", "executable file not found in $PATH"}

\* what a call of Execute returned and issued, and the cluster after it
ClusterOutcome(err, r, w, cl) == [err |-> err, reads |-> r, writes |-> w, cluster |-> cl]

\* Executor.executePatch on the cluster
executePatchOn(cl, action) ==
    LET key == resourceKey(action.target)
        obj == Lookup(cl, key)
    IN {ClusterOutcome("patch failed", 0, 1, cl)}
       \cup (IF obj.exists
              THEN {ClusterOutcome("", 0, 1, [cl EXCEPT ![key] = PatchFinalizersNull(obj)])}
              ELSE {ClusterOutcome("not found", 0, 1, cl)})

\* Executor.executeDelete on the cluster
executeDeleteOn(cl, action) ==
    LET key == resourceKey(action.target)
        obj == Lookup(cl, key)
    IN {ClusterOutcome("delete failed", 0, 1, cl)}
       \cup (IF obj.exists
              THEN {ClusterOutcome("", 0, 1, [cl EXCEPT ![key] = DeleteObject(obj)])}
              ELSE {ClusterOutcome("not found", 0, 1, cl)})

\* the error executeFinalize returns for the error of its Get
getNamespaceError(err) ==
    IF err = "" THEN "" ELSE "failed to get namespace: " \o err

\* mutant: the target kind is not checked
executeFinalizeOn_NoKindCheck(cl, action) ==
    LET obj == Lookup(cl, "Namespace/" \o action.target.name)
    IN {ClusterOutcome(getNamespaceError(err), 1, 0, cl) : err \in GetErrors(obj)}

\* Executor.executeFinalize on the cluster up to the return of its first
\* request: the check of the target kind, then the Get of the namespace of
\* that name.  The outcome without error is the Get that succeeded
executeFinalizeOn(cl, action) ==
    IF action.target.kind # "Namespace"
    THEN {ClusterOutcome("finalize action only supports Namespace", 0, 0, cl)}
    ELSE LET obj == Lookup(cl, "Namespace/" \o action.target.name)
         IN {ClusterOutcome(getNamespaceError(err), 1, 0, cl) : err \in GetErrors(obj)}

\* Executor.executeFinalize on the cluster after its Get: the namespace it
\* holds is sent with its spec finalizers cleared.  The server refuses the
\* update of an object that is no longer the one that was read
finalizeRequestOn(cl, name, ns) ==
    LET key == "Namespace/" \o name
    IN {ClusterOutcome("finalize failed", 0, 1, cl)}
       \cup (IF Lookup(cl, key) = ns
              THEN {ClusterOutcome("", 0, 1, [cl EXCEPT ![key] = FinalizeNamespace(ns)])}
              ELSE {})

\* Executor.Execute on the cluster up to its return or, for a finalize
\* action, up to the return of the Get
ExecuteOn(cl, action) ==
    CASE action.type \in {ActionInspect, ActionList, ActionWait} ->
             {ClusterOutcome("", 0, 0, cl)}
      [] action.type = ActionPatch -> executePatchOn(cl, action)
      [] action.type = ActionDelete -> executeDeleteOn(cl, action)
      [] action.type = ActionFinalize -> executeFinalizeOn(cl, action)
      [] OTHER -> {ClusterOutcome("unknown action type", 0, 0, cl)}

\* Executor.verifyNoFinalizers on the cluster: any error of the Get is
\* returned, "not found" included
verifyNoFinalizersOn(cl, target) ==
    LET obj == Lookup(cl, resourceKey(target))
    IN {IF err = "" THEN VerifyOutcome(~obj.finalizers, "", 1)
        ELSE VerifyOutcome(FALSE, err, 1) : err \in GetErrors(obj)}

\* Executor.verifyDeleted on the cluster: an error of the Get whose text
\* holds "not found" is the post-condition, any other error is returned
verifyDeletedOn(cl, target) ==
    LET obj == Lookup(cl, resourceKey(target))
    IN {IF err = "" THEN VerifyOutcome(FALSE, "", 1)
        ELSE IF ContainsNotFound(err) THEN VerifyOutcome(TRUE, "", 1)
        ELSE VerifyOutcome(FALSE, err, 1) : err \in GetErrors(obj)}

\* Executor.verifyNamespaceCleared on the cluster: an error of the Get
\* whose text holds "not found" is the post-condition, any other error is
\* returned; a namespace that was read is cleared if its phase is not
\* Terminating (it has no deletionTimestamp)
verifyNamespaceClearedOn(cl, name) ==
    LET obj == Lookup(cl, "Namespace/" \o name)
    IN {IF err = "" THEN VerifyOutcome(~obj.deleting, "", 1)
        ELSE IF ContainsNotFound(err) THEN VerifyOutcome(TRUE, "", 1)
        ELSE VerifyOutcome(FALSE, err, 1) : err \in GetErrors(obj)}

\* Executor.Verify on the cluster
VerifyOn(cl, action) ==
    CASE action.type \in {ActionInspect, ActionList, ActionWait} ->
             {VerifyOutcome(TRUE, "", 0)}
      [] action.type = ActionPatch -> verifyNoFinalizersOn(cl, action.target)
      [] action.type = ActionDelete -> verifyDeletedOn(cl, action.target)
      [] action.type = ActionFinalize -> verifyNamespaceClearedOn(cl, action.target.name)
      [] OTHER -> {VerifyOutcome(FALSE, "unknown action type for verification", 0)}

\* an entry of the call log with the requests the call issued
ClusterCall(op, i, ok, err, r, w) ==
    [op |-> op, idx |-> i, ok |-> ok, err |-> err, response |-> "", scanErr |-> "",
     reads |-> r, writes |-> w]

\* Executor.Execute has returned err on the cluster after r reads and w
\* writes: the call is logged; an error fails the action and, without
\* continueOnError, leaves the loop
ClusterExecuteReturns(err, r, w) ==
    LET action == plan.actions[idx] IN
    /\ calls' = Append(calls, ClusterCall("Execute", idx, err = "", err, r, w))
    /\ IF err # ""
       THEN LET res == AppendResult([result EXCEPT !.failed = @ + 1], action,
                              [success |-> FALSE, error |-> err])
            IN IF ~opts.continueOnError THEN LoopBreak(res) ELSE LoopNext(res)
       ELSE /\ pc' = "verify"
            /\ UNCHANGED <<idx, cur, result>>

\* the live branch on the cluster: Executor.Execute runs up to its return
\* or, for the finalize of a namespace, up to the return of its Get; the
\* call then holds the namespace it has read and is still in progress
ClusterExecuteStep ==
    /\ pc = "execute"
    /\ \E out \in ExecuteOn(cluster, plan.actions[idx]) :
         LET action == plan.actions[idx] IN
         /\ reads' = reads + out.reads
         /\ writes' = writes + out.writes
         /\ cluster' = out.cluster
         /\ IF out.err = "" /\ action.type = ActionFinalize
            THEN /\ pc' = "finalize"
                 /\ fetched' = [held |-> TRUE,
                                ns |-> Lookup(cluster, "Namespace/" \o action.target.name)]
                 /\ UNCHANGED <<idx, cur, result, calls>>
            ELSE /\ ClusterExecuteReturns(out.err, out.reads, out.writes)
                 /\ UNCHANGED fetched
    /\ UNCHANGED <<plan, opts, ctx, applyErr>>
    /\ UNCHANGED <<plannerVars, ordererVars, cli>>

\* the Finalize request of executeFinalize returns on the cluster, and with
\* it Execute, which has made one read and one write
ClusterFinalizeStep ==
    /\ pc = "finalize"
    /\ fetched.held
    /\ \E out \in finalizeRequestOn(cluster, plan.actions[idx].target.name, fetched.ns) :
         /\ writes' = writes + out.writes
         /\ cluster' = out.cluster
         /\ fetched' = NoFetched
         /\ ClusterExecuteReturns(out.err, 1, out.writes)
    /\ UNCHANGED <<plan, opts, ctx, applyErr, reads>>
    /\ UNCHANGED <<plannerVars, ordererVars, cli>>

\* Executor.Verify returns on the cluster
ClusterVerifyStep ==
    /\ pc = "verify"
    /\ \E out \in VerifyOn(cluster, plan.actions[idx]) :
         LET action == plan.actions[idx]
             c == IF out.err # ""
                  THEN [success |-> FALSE, error |-> "verification failed: " \o out.err]
                  ELSE IF ~out.verified
                  THEN [success |-> FALSE, error |-> "post-condition not met"]
                  ELSE [success |-> TRUE, error |-> ""]
             res == IF c.success THEN [result EXCEPT !.succeeded = @ + 1]
                    ELSE [result EXCEPT !.failed = @ + 1]
         IN
         /\ calls' = Append(calls, ClusterCall("Verify", idx, out.verified /\ out.err = "",
                                               out.err, out.reads, 0))
         /\ reads' = reads + out.reads
         /\ IF opts.verbose
            THEN /\ pc' = "snapshotAfter"
                 /\ cur' = c
                 /\ result' = res
                 /\ idx' = idx
            ELSE LoopNext(AppendResult(res, action, c))
    /\ UNCHANGED <<plan, opts, ctx, cluster, fetched, applyErr, writes>>
    /\ UNCHANGED <<plannerVars, ordererVars, cli>>

ClusterPod == ResourceRef("Pod", "v1", "ns2", "a")

ClusterNamespace == ResourceRef("Namespace", "v1", "", "a")

\* a blocker patch, the namespace finalize, a finalize of a resource that
\* is no namespace, a delete and a read-only action
ClusterActionPool ==
    {finalizerRemovalAction(ClusterPod, ""),
     forceFinalize("a"),
     Action(ActionFinalize, EscalationForce, ClusterPod, "force-finalize", "",
            RiskCritical, TRUE),
     Action(ActionDelete, EscalationClean, ClusterPod, "delete", "", RiskLow, FALSE),
     Action(ActionInspect, EscalationInfo, ClusterNamespace, "inspect", "", RiskNone,
            FALSE)}

ClusterPlans ==
    {[target |-> ClusterNamespace,
      maxEscalation |-> EscalationForce,
      actions |-> AssignIds(as),
      commands |-> GenerateCommands(as),
      riskLevel |-> CalculateRiskLevel(as)] :
         as \in SeqsUpTo(ClusterActionPool, MaxClusterPlanLen) \ {<<>>}}

\* the states an object can rest in: AfterUpdate leaves it unchanged
ObjectStates(specFinalizers) ==
    {Gone} \cup {o \in {Object(f, s, d) : f \in BOOLEAN, s \in specFinalizers,
                                          d \in BOOLEAN} : AfterUpdate(o) = o}

Clusters ==
    {(resourceKey(ClusterPod) :> pod) @@ (resourceKey(ClusterNamespace) :> ns) :
         pod \in ObjectStates({FALSE}), ns \in ObjectStates(BOOLEAN)}

InitCluster ==
    /\ plan \in ClusterPlans
    /\ opts \in ApplierOptions
    /\ cluster \in Clusters
    /\ fetched = NoFetched
    /\ pc = "idle"
    /\ idx = 0
    /\ cur = NoCur
    /\ result = NoResult
    /\ applyErr = ""
    /\ calls = <<>>
    /\ reads = 0
    /\ writes = 0
    /\ ctx = NoDeadline
    /\ PlannerIdle
    /\ OrdererIdle
    /\ CliIdle

NextCluster ==
    \/ ApplyStart
    \/ ConfirmStep
    \/ SnapshotBefore
    \/ DryRunStep
    \/ ClusterExecuteStep
    \/ ClusterFinalizeStep
    \/ ClusterVerifyStep
    \/ SnapshotAfter

SpecCluster == InitCluster /\ [][NextCluster]_vars

(***************************************************************************)
(* Properties.  Those about Planner.Plan are stated of SpecPlan, those     *)
(* about Applier.Apply of SpecApply.                                       *)
(***************************************************************************)
\* Plan has returned a plan for a non-nil diagnosis
PlanReturned == planPc = "planned" /\ diagnosis # NilDiagnosis

PlannedActions == planOut.plan.actions

StateChanging(a) == a.type \in {ActionPatch, ActionDelete, ActionFinalize}

\* Apply is running, or has returned, on a non-nil plan
ApplyRunning == plan # NilPlan /\ pc # "idle"

LiveRun == ApplyRunning /\ ~opts.dryRun

\* the operator typed one of the accepted answers and the read succeeded
Affirmative(c) == c.scanErr = "" /\ c.response \in {"y", "Y", "yes", "YES"}

\* C1 (healthy short-circuit): for a diagnosis with status "Active", "Bound" or
\* "" and any planner configuration, Plan returns without error a plan with
\* no actions, no commands and riskLevel None.
C1_HealthyShortCircuit ==
    (PlanReturned /\ diagnosis.status \in {"Active", "Bound", ""}) =>
        /\ planOut.err = ""
        /\ planOut.plan.actions = <<>>
        /\ planOut.plan.commands = <<>>
        /\ planOut.plan.riskLevel = RiskNone

\* C2 (force gating): with allowForce = FALSE, whatever the ceiling, the plan
\* holds no action of escalation level 3 or more, hence none that requires force.
C2_ForceGating ==
    (PlanReturned /\ ~allowForce) =>
        /\ planOut.err = ""
        /\ \A i \in 1..Len(PlannedActions) :
              /\ PlannedActions[i].escalationLevel < EscalationCRD
              /\ ~PlannedActions[i].requiresForce
        /\ ~HasForceActions(PlannedActions)

\* a plan made at ceiling 4 without force for a stuck namespace whose discovery failed
C2_Witness ==
    /\ PlanReturned
    /\ ~allowForce
    /\ maxEscalation = EscalationForce
    /\ diagnosis.status = "Terminating"
    /\ diagnosis.targetType = TargetTypeNamespace
    /\ HasDiscoveryFailures(diagnosis)
    /\ Len(diagnosis.blockers) = MaxBlockers
    /\ Len(PlannedActions) = 2 + MaxBlockers

\* C3 (level monotonicity): every action of the plan has an escalation level
\* at most the ceiling; FilterActionsByMaxLevel at the ceiling keeps the whole plan.
C3_LevelMonotonicity ==
    PlanReturned =>
        /\ \A i \in 1..Len(PlannedActions) :
              PlannedActions[i].escalationLevel <= maxEscalation
        /\ FilterActionsByMaxLevel(PlannedActions, maxEscalation) = PlannedActions

\* a plan at ceiling 1 for a stuck target with blockers and a ready controller:
\* the level-1 action is in it, the blockers' level-2 actions are not
C3_Witness ==
    /\ PlanReturned
    /\ maxEscalation = EscalationClean
    /\ allowForce
    /\ diagnosis.status = "Terminating"
    /\ Len(diagnosis.blockers) > 0
    /\ \E i \in 1..Len(PlannedActions) : PlannedActions[i].escalationLevel = EscalationClean
    /\ Len(PlannedActions) = 3

\* C4 (no changes to a non-stuck resource): for a diagnosis whose status is
\* anything other than "Terminating", the plan holds no patch, delete or
\* finalize action.
C4_NoChangeToNonStuck ==
    (PlanReturned /\ ~IsTerminating(diagnosis)) =>
        \A i \in 1..Len(PlannedActions) : ~StateChanging(PlannedActions[i])

\* C5 (confirmation gating): in a live run without autoConfirm, Execute is
\* called for an action that requires force only after an affirmative answer
\* to that action's prompt; after any other answer, a failed read included,
\* the action is recorded as skipped, neither Execute nor Verify is ever
\* called for it, and the loop goes on to the next action.
C5_ConfirmationGating ==
    (LiveRun /\ ~opts.autoConfirm) =>
        /\ \A k \in 1..Len(calls) :
              (calls[k].op = "Execute" /\ plan.actions[calls[k].idx].requiresForce) =>
                  \E j \in 1..(k - 1) :
                      /\ calls[j].op = "confirm"
                      /\ calls[j].idx = calls[k].idx
                      /\ Affirmative(calls[j])
        /\ \A j \in 1..Len(calls) :
              (calls[j].op = "confirm" /\ ~Affirmative(calls[j])) =>
                  LET i == calls[j].idx IN
                  /\ \A k \in 1..Len(calls) :
                        calls[k].idx = i => calls[k].op \notin {"Execute", "Verify"}
                  /\ Len(result.actions) >= i
                  /\ result.actions[i].action = plan.actions[i]
                  /\ ~result.actions[i].success
                  /\ result.actions[i].error = "skipped by user"
                  /\ result.skipped >= 1
                  /\ i < Len(plan.actions) => idx > i
                  /\ i = Len(plan.actions) => pc = "done"

\* a run in which one prompt was declined by a failed read of the answer and
\* a later prompt was answered yes and its action executed
C5_Witness ==
    /\ LiveRun
    /\ ~opts.autoConfirm
    /\ ~opts.continueOnError
    /\ \E j, k, l \in 1..Len(calls) :
          /\ j < k /\ k < l
          /\ calls[j].op = "confirm" /\ calls[j].scanErr = "expected newline"
          /\ calls[k].op = "confirm" /\ Affirmative(calls[k])
          /\ calls[l].op = "Execute" /\ calls[l].idx = calls[k].idx

\* C6 (dry-run purity): with dryRun set, no prompt, Snapshot, Execute or
\* Verify call is ever made and no request reaches the cluster, also for
\* actions that require force and with verbose set; the run ends with
\* succeeded = totalActions, failed = 0, skipped = 0 and exit code 0.
C6_DryRunPurity ==
    (ApplyRunning /\ opts.dryRun) =>
        /\ calls = <<>>
        /\ reads = 0
        /\ writes = 0
        /\ pc \in {"dryRun", "done"}
        /\ pc = "done" =>
              /\ result.totalActions = Len(plan.actions)
              /\ result.succeeded = result.totalActions
              /\ result.failed = 0
              /\ result.skipped = 0
              /\ result.exitCode = 0

\* a finished verbose dry run, without autoConfirm, of a plan of several
\* actions of which one requires force
C6_Witness ==
    /\ ApplyRunning
    /\ opts.dryRun /\ opts.verbose /\ ~opts.autoConfirm
    /\ pc = "done"
    /\ Len(plan.actions) = MaxPlanLen
    /\ \E i \in 1..Len(plan.actions) : plan.actions[i].requiresForce
    /\ result.succeeded = MaxPlanLen

\* the exit code law as the claim states it
ExitCodeLawAsClaimed(e, s, f, k) ==
    /\ e = 0 <=> (f = 0 /\ k = 0)
    /\ e = 1 <=> s = 0
    /\ e \notin {0, 1} => e = 2

\* the exit code law with the case of nothing failed and nothing skipped
\* taken out of the second rule
ExitCodeLawAmended(e, s, f, k) ==
    /\ e = 0 <=> (f = 0 /\ k = 0)
    /\ e = 1 <=> (s = 0 /\ (f > 0 \/ k > 0))
    /\ e \notin {0, 1} => e = 2

Counters(s, f, k) == [NoResult EXCEPT !.succeeded = s, !.failed = f, !.skipped = k]

\* C7 as claimed (exit code law): exitCode = 0 iff failed = 0 and skipped = 0;
\* exitCode = 1 iff succeeded = 0; otherwise exitCode = 2.
C7_ExitCodeLawAsClaimed ==
    pc = "done" =>
        ExitCodeLawAsClaimed(result.exitCode, result.succeeded, result.failed,
                             result.skipped)

\* C7 amended (exit code law): exitCode = 0 iff failed = 0 and skipped = 0;
\* exitCode = 1 iff succeeded = 0 and something failed or was skipped;
\* otherwise exitCode = 2.  It holds of every result Apply returns and of
\* every combination of counters; {1, 2, 0} and {1, 0, 2} give 2.
C7_ExitCodeLaw ==
    /\ pc = "done" =>
          ExitCodeLawAmended(result.exitCode, result.succeeded, result.failed,
                             result.skipped)
    /\ \A s, f, k \in 0..MaxPlanLen :
          ExitCodeLawAmended(calculateExitCode(Counters(s, f, k)), s, f, k)
    /\ calculateExitCode(Counters(1, 2, 0)) = 2
    /\ calculateExitCode(Counters(1, 0, 2)) = 2

\* a run that ended with one action succeeded and two failed, exit code 2
C7_Witness ==
    /\ pc = "done"
    /\ result.succeeded = 1 /\ result.failed = 2 /\ result.skipped = 0
    /\ result.exitCode = 2

\* C8: Apply returns exit code 0 exactly when every action of the plan was
\* processed and succeeded (succeeded = totalActions; an empty plan gives zero
\* totals and 0); a run that stopped early, skipped or failed an action does
\* not return 0.
C8_ExitZeroIffAllSucceeded ==
    (ApplyRunning /\ pc = "done") =>
        /\ result.totalActions = Len(plan.actions)
        /\ result.exitCode = 0 <=>
              /\ result.succeeded = result.totalActions
              /\ Len(result.actions) = result.totalActions
              /\ \A i \in 1..Len(result.actions) : result.actions[i].success
        /\ result.exitCode = 0 <=> result.succeeded = result.totalActions
        /\ (result.failed > 0 \/ result.skipped > 0
            \/ Len(result.actions) < result.totalActions) => result.exitCode # 0
        /\ Len(plan.actions) = 0 =>
              /\ result.exitCode = 0
              /\ result.succeeded = 0 /\ result.failed = 0 /\ result.skipped = 0

\* a live run of several actions, with cluster writes, that returned 0
C8_Witness ==
    /\ LiveRun
    /\ pc = "done"
    /\ result.exitCode = 0
    /\ result.totalActions = MaxPlanLen
    /\ writes >= 2

\* C9 (fail-fast on execution error): in a live run with continueOnError =
\* FALSE, when Execute returns an error for action i the action is recorded
\* as failed with the error text and the loop stops at once: no later call of
\* any kind is made, no later ActionResult is appended, no counter moves.
C9_FailFastOnExecuteError ==
    (LiveRun /\ ~opts.continueOnError) =>
        \A k \in 1..Len(calls) :
            (calls[k].op = "Execute" /\ calls[k].err # "") =>
                LET i == calls[k].idx IN
                /\ k = Len(calls)
                /\ pc = "done"
                /\ Len(result.actions) = i
                /\ result.actions[i].action = plan.actions[i]
                /\ ~result.actions[i].success
                /\ result.actions[i].error = calls[k].err
                /\ result.failed >= 1
                /\ result.succeeded + result.failed + result.skipped = i

\* a run stopped by an Execute error before the last action of the plan,
\* after an earlier action had succeeded
C9_Witness ==
    /\ LiveRun
    /\ ~opts.continueOnError
    /\ pc = "done"
    /\ result.succeeded >= 1
    /\ \E k \in 1..Len(calls) :
          /\ calls[k].op = "Execute" /\ calls[k].err # ""
          /\ calls[k].idx < Len(plan.actions)

\* C10 (default fail-fast): in a live run with continueOnError = FALSE, once
\* an action is recorded as failed (Execute error, Verify error or Verify
\* false) no later action of the plan is executed.
C10_DefaultFailFast ==
    (LiveRun /\ ~opts.continueOnError) =>
        \A i \in 1..Len(result.actions) :
            (~result.actions[i].success /\ result.actions[i].error # "skipped by user") =>
                \A k \in 1..Len(calls) : calls[k].op = "Execute" => calls[k].idx <= i

\* C11 (sequential plan-order execution): the calls Apply makes come one
\* after the other in plan order: Execute is called at most once per action
\* and in strictly increasing plan index, nothing is done for an action after
\* something was done for a later one, Verify for action i directly follows a
\* successful Execute for action i, and the ActionResults are, in order, the
\* records of the first k actions of the plan, k <= totalActions.
C11_SequentialPlanOrder ==
    ApplyRunning =>
        /\ \A j, k \in 1..Len(calls) :
              j < k =>
                  /\ calls[j].idx <= calls[k].idx
                  /\ (calls[j].op = "Execute" /\ calls[k].op = "Execute") =>
                        calls[j].idx < calls[k].idx
        /\ \A k \in 1..Len(calls) :
              /\ calls[k].idx \in 1..idx
              /\ calls[k].op = "Verify" =>
                    /\ k > 1
                    /\ calls[k - 1].op = "Execute"
                    /\ calls[k - 1].idx = calls[k].idx
                    /\ calls[k - 1].ok
              /\ (calls[k].op = "Execute" /\ calls[k].ok) =>
                    IF k = Len(calls) THEN pc = "verify" /\ idx = calls[k].idx
                    ELSE calls[k + 1].op = "Verify" /\ calls[k + 1].idx = calls[k].idx
        /\ Len(result.actions) <= result.totalActions
        /\ result.totalActions = Len(plan.actions)
        /\ \A i \in 1..Len(result.actions) : result.actions[i].action = plan.actions[i]
        /\ pc # "done" => Len(result.actions) = idx - 1

\* a finished verbose live run over a plan of distinct actions in which every
\* action was executed and verified, with snapshots in between
C11_Witness ==
    /\ LiveRun
    /\ opts.verbose
    /\ pc = "done"
    /\ Len(plan.actions) = MaxPlanLen
    /\ plan.actions[1].type # plan.actions[2].type
    /\ Len(result.actions) = MaxPlanLen
    /\ Cardinality({k \in 1..Len(calls) : calls[k].op = "Execute"}) = MaxPlanLen
    /\ Cardinality({k \in 1..Len(calls) : calls[k].op = "Verify"}) = MaxPlanLen

\* C12 (cancellation): once the deadline has expired during the loop, at
\* action ctx.at, no later action of the plan is started: the loop does not
\* move past that action, no call is made for a later action, and no later
\* action is recorded or counted as succeeded, failed or skipped, whatever
\* continueOnError and dryRun are.
C12_Cancellation ==
    (ApplyRunning /\ ctx.done) =>
        /\ idx <= ctx.at
        /\ \A k \in 1..Len(calls) : calls[k].idx <= ctx.at
        /\ Len(result.actions) <= ctx.at
        /\ result.succeeded + result.failed + result.skipped <= ctx.at

\* OrderByDependencies has returned
Ordered == ordPc \in {"ordered", "reordered"}

\* kinds in several spellings: those of the priority table and others
KindPool ==
    {"pod", "Pod", "POD", "ConfigMap", "Secret", "Service", "endpoints", "Endpoints",
     "endpoint", "Endpoint", "Deployment", "StatefulSet", "DaemonSet", "ReplicaSet",
     "Job", "CronJob", "deployment", "Certificate", "Issuer", "ClusterIssuer",
     "CustomResourceDefinition", "customresourcedefinition", "Namespace", "NAMESPACE",
     "Widget", "UnknownResource", ""}

\* the priority table as the claim gives it, on the lower-cased kind
PriorityAsClaimed(k) ==
    IF k \in {"pod", "configmap", "secret", "service", "endpoints"} THEN 10
    ELSE IF k \in {"deployment", "statefulset", "daemonset", "replicaset", "job", "cronjob"}
    THEN 20
    ELSE IF k \in {"certificate", "issuer", "clusterissuer"} THEN 30
    ELSE IF k = "customresourcedefinition" THEN 100
    ELSE IF k = "namespace" THEN 200
    ELSE 50

\* the same table with the singular "endpoint" among the leaf kinds
PriorityAmended(k) == IF k = "endpoint" THEN 10 ELSE PriorityAsClaimed(k)

\* (level, priority, name) of a is lexicographically <= that of b, the
\* priority being pa for a and pb for b
KeyLeq(a, pa, b, pb) ==
    \/ a.escalationLevel < b.escalationLevel
    \/ /\ a.escalationLevel = b.escalationLevel
       /\ \/ pa < pb
          \/ pa = pb /\ NameRank(a.target.name) <= NameRank(b.target.name)

\* how many times x occurs in the sequence
Occurrences(seq, x) == Cardinality({i \in 1..Len(seq) : seq[i] = x})

\* the input of TestOrderByDependencies_SortsByResourcePriority
PriorityExample ==
    <<PatchOf("Namespace", "", "a"), PatchOf("Pod", "", "b"),
      PatchOf("CustomResourceDefinition", "", "c"), PatchOf("Certificate", "", "d")>>

\* C13 as claimed (escalation-then-priority sort): the output is sorted by
\* (escalationLevel, resourcePriority(kind), target.name), where
\* resourcePriority is the claim's table, every kind outside it, "endpoint"
\* included, being 50.
C13_SortedByKeyAsClaimed ==
    /\ \A kind \in KindPool : resourcePriority(kind) = PriorityAsClaimed(ToLower(kind))
    /\ Ordered =>
          \A i, j \in 1..Len(ordOut) :
              i < j => KeyLeq(ordOut[i], PriorityAsClaimed(ToLower(ordOut[i].target.kind)),
                              ordOut[j], PriorityAsClaimed(ToLower(ordOut[j].target.kind)))

\* C13 amended (escalation-then-priority sort): the output of
\* OrderByDependencies holds the actions of the input and for all positions
\* i < j the key (escalationLevel, resourcePriority(kind), target.name) of
\* element i is <= that of element j; resourcePriority is case-insensitive
\* and maps pod/configmap/secret/service/endpoint/endpoints to 10, the
\* workload kinds to 20, certificate/issuer/clusterissuer to 30,
\* customresourcedefinition to 100, namespace to 200 and every other kind to
\* 50; {Namespace, Pod, CRD, Certificate} at L2 come out as Pod, Certificate,
\* CRD, Namespace.
C13_SortedByKey ==
    /\ \A kind \in KindPool : resourcePriority(kind) = PriorityAmended(ToLower(kind))
    /\ Ordered =>
          /\ Len(ordOut) = Len(ordPrev)
          /\ \A x \in OrderActionPool : Occurrences(ordOut, x) = Occurrences(ordPrev, x)
          /\ \A i, j \in 1..Len(ordOut) :
                i < j => KeyLeq(ordOut[i], PriorityAmended(ToLower(ordOut[i].target.kind)),
                                ordOut[j], PriorityAmended(ToLower(ordOut[j].target.kind)))
    /\ (ordPc = "ordered" /\ ordIn = PriorityExample) =>
          [i \in 1..4 |-> ordOut[i].target.kind]
              = <<"Pod", "Certificate", "CustomResourceDefinition", "Namespace">>

\* the example of the claim has been ordered
C13_Witness ==
    /\ ordPc = "ordered"
    /\ ordIn = PriorityExample
    /\ ordOut # ordIn
    /\ ordOut[1].target.kind = "Pod"

\* C14 (ordering stability): OrderByDependencies applied to its own output
\* returns that output unchanged.
C14_Idempotent ==
    ordPc = "reordered" =>
        /\ ordPrev = OrderByDependencies(ordIn)
        /\ ordOut = ordPrev

\* a second call on the output of a call that had to move actions and whose
\* input held two actions equal on (level, priority, name), the later first
C14_Witness ==
    /\ ordPc = "reordered"
    /\ Len(ordIn) = MaxOrderLen
    /\ ordPrev # ordIn
    /\ \E i, j \in 1..Len(ordIn) :
          /\ i < j
          /\ ordIn[i] = PatchOf("Secret", "ns1", "b")
          /\ ordIn[j] = PatchOf("Pod", "", "b")

\* the lists that hold the elements of seq in some order
PermutationsOf(seq) ==
    {[i \in 1..Len(seq) |-> seq[f[i]]] : f \in Permutations(1..Len(seq))}

\* C15 (ordering determinism): the output is the same for every list that is
\* a permutation of the input.
C15_OrderIndependent ==
    ordPc = "ordered" =>
        \A q \in PermutationsOf(ordIn) : OrderByDependencies(q) = ordOut

\* C16 (ID assignment): in a plan of N actions the action at position i,
\* in the final order, has the id "action-" followed by i padded with zeros
\* to three digits: action-001 .. action-00N, no gap, no duplicate; the
\* padding shrinks as the number grows (action-010, action-100).
C16_IdAssignment ==
    /\ PlanReturned =>
          /\ Len(PlannedActions) < 10
          /\ \A i \in 1..Len(PlannedActions) :
                PlannedActions[i].id = "action-00" \o ToString(i)
          /\ \A i, j \in 1..Len(PlannedActions) :
                i # j => PlannedActions[i].id # PlannedActions[j].id
          /\ OrderByDependencies(PlannedActions) = PlannedActions
    /\ ActionId(7) = "action-007"
    /\ ActionId(10) = "action-010"
    /\ ActionId(99) = "action-099"
    /\ ActionId(100) = "action-100"

\* a plan of six actions in which ordering moved the second blocker's action
\* ahead of the first's, numbered after the move
C16_Witness ==
    /\ PlanReturned
    /\ Len(PlannedActions) = 4 + MaxBlockers
    /\ diagnosis.blockers[1].kind = "deployment"
    /\ diagnosis.blockers[2].kind = "Pod"
    /\ PlannedActions[4].target.kind = "Pod"
    /\ PlannedActions[4].id = "action-004"
    /\ PlannedActions[5].target.kind = "deployment"
    /\ PlannedActions[6].id = "action-006"

\* the greatest rank among the risks of the actions, 0 for none
MaxRank(actions) ==
    IF actions = <<>> THEN 0
    ELSE CHOOSE r \in 0..4 :
           /\ \E i \in 1..Len(actions) : riskRank(actions[i].risk) = r
           /\ \A i \in 1..Len(actions) : riskRank(actions[i].risk) <= r

\* C17 (plan risk): the riskLevel of every plan Plan returns equals
\* CalculateRiskLevel of its actions: None for no action, otherwise the
\* greatest action risk under None < Low < Medium < High < Critical; two
\* blockers of a namespace at ceiling 2 give Medium.
C17_PlanRisk ==
    PlanReturned =>
        /\ planOut.plan.riskLevel = CalculateRiskLevel(PlannedActions)
        /\ PlannedActions = <<>> => planOut.plan.riskLevel = RiskNone
        /\ riskRank(planOut.plan.riskLevel) = MaxRank(PlannedActions)
        /\ (diagnosis.status = "Terminating" /\ diagnosis.targetType = TargetTypeNamespace
            /\ Len(diagnosis.blockers) = 2 /\ maxEscalation = EscalationFinalizer) =>
              planOut.plan.riskLevel = RiskMedium

\* the commands of the actions that have one, in action order
RECURSIVE NonEmptyCommands(_, _)
NonEmptyCommands(actions, i) ==
    IF i > Len(actions) THEN <<>>
    ELSE IF actions[i].command = "" THEN NonEmptyCommands(actions, i + 1)
    ELSE <<actions[i].command>> \o NonEmptyCommands(actions, i + 1)

\* C18 (plan commands): plan.commands is the sequence of the non-empty
\* commands of plan.actions in action order; inspect, list and wait actions
\* (levels 0 and 1) have an empty command, patch and finalize actions (levels
\* 2 to 4) a non-empty one, so there are as many commands as actions of
\* level >= 2: none at ceiling 0, two for two blockers at ceiling 2.
C18_PlanCommands ==
    PlanReturned =>
        /\ planOut.plan.commands = NonEmptyCommands(PlannedActions, 1)
        /\ \A i \in 1..Len(PlannedActions) :
              LET a == PlannedActions[i] IN
              /\ a.type \in {ActionInspect, ActionList, ActionWait} <=>
                    a.escalationLevel <= EscalationClean
              /\ a.type \in {ActionPatch, ActionFinalize} <=>
                    a.escalationLevel >= EscalationFinalizer
              /\ a.command = "" <=> a.escalationLevel <= EscalationClean
        /\ Len(planOut.plan.commands) =
              Cardinality({i \in 1..Len(PlannedActions) :
                               PlannedActions[i].escalationLevel >= EscalationFinalizer})
        /\ \A k \in 1..Len(planOut.plan.commands) : planOut.plan.commands[k] # ""
        /\ maxEscalation = EscalationInfo => planOut.plan.commands = <<>>
        /\ (~IsHealthy(diagnosis) /\ Len(diagnosis.blockers) = 2
            /\ maxEscalation = EscalationFinalizer) => Len(planOut.plan.commands) = 2

\* a plan at ceiling 4 with actions of levels 0, 1, 2 and 4: as many commands
\* as blockers plus one, the force-finalize command last
C18_Witness ==
    /\ PlanReturned
    /\ maxEscalation = EscalationForce
    /\ Len(PlannedActions) = 4 + MaxBlockers
    /\ Len(planOut.plan.commands) = MaxBlockers + 1
    /\ planOut.plan.commands[MaxBlockers + 1] = generateForceFinalize(diagnosis.target.name)
    /\ planOut.plan.commands[1] = PlannedActions[4].command

\* C19 (invalid input): Plan on a nil diagnosis returns an error and no plan,
\* whatever the planner configuration; Apply on a nil plan returns an error
\* and no result without entering its loop: no confirmation, Snapshot,
\* Execute or Verify call and no cluster request is made.  A non-nil plan is
\* never answered with an error.
C19_InvalidInput ==
    /\ \A m \in Levels, f \in BOOLEAN :
          /\ Plan(NilDiagnosis, m, f).err = "diagnosis report is nil"
          /\ Plan(NilDiagnosis, m, f).plan = NilPlan
    /\ (plan = NilPlan /\ pc # "idle") =>
          /\ pc = "error"
          /\ applyErr = "plan cannot be nil"
          /\ result = NoResult
          /\ cur = NoCur
          /\ idx = 0
          /\ calls = <<>>
          /\ reads = 0
          /\ writes = 0
    /\ plan # NilPlan => (applyErr = "" /\ pc # "error")

\* Apply has returned on a nil plan, whatever the options
C19_Witness ==
    /\ plan = NilPlan
    /\ pc = "error"
    /\ applyErr # ""
    /\ ~opts.dryRun /\ opts.autoConfirm /\ opts.verbose

\* the flags a command must reject
BadFlags ==
    \/ cli.maxEscalation < 0
    \/ cli.maxEscalation > 4
    \/ cli.maxEscalation >= 3 /\ ~cli.allowForce

\* C20 (boundary validation): plan and apply reject a --max-escalation
\* outside 0..4, and one of 3 or more given without --allow-force, with an
\* error, before the cluster client is built, a detector runs or the Planner
\* is constructed; so the Planner the command constructs has the flags'
\* values, a ceiling within 0..4 and never a ceiling >= 3 with allowForce false.
C20_BoundaryValidation ==
    /\ BadFlags =>
          /\ cli.pc \in {"start", "exit"}
          /\ ~cli.clientBuilt
          /\ ~cli.detectorRan
          /\ planPc = "idle"
          /\ diagnosis = NilDiagnosis
          /\ cli.pc = "exit" =>
                cli.err = IF cli.maxEscalation \in 0..4
                          THEN "--allow-force is required for escalation level "
                                   \o ToString(cli.maxEscalation) \o " or higher"
                          ELSE "max-escalation must be between 0 and 4"
    /\ planPc # "idle" =>
          /\ maxEscalation = cli.maxEscalation
          /\ allowForce = cli.allowForce
          /\ maxEscalation \in Levels
          /\ maxEscalation >= EscalationCRD => allowForce
    /\ (cli.clientBuilt \/ cli.detectorRan) => ~BadFlags

\* apply --max-escalation=4 without --allow-force has been rejected
C20_Witness ==
    /\ cli.command = "apply"
    /\ cli.maxEscalation = EscalationForce
    /\ ~cli.allowForce
    /\ cli.targetName # ""
    /\ cli.pc = "exit"
    /\ cli.err # ""

\* the records of the run, by outcome
SucceededRecords == {i \in 1..Len(result.actions) : result.actions[i].success}

SkippedRecords ==
    {i \in 1..Len(result.actions) :
         ~result.actions[i].success /\ result.actions[i].error = "skipped by user"}

FailedRecords ==
    {i \in 1..Len(result.actions) :
         ~result.actions[i].success /\ result.actions[i].error # "skipped by user"}

\* C21 (continue on error): a run with continueOnError = TRUE returns only
\* after every action of the plan was processed, whatever Execute and Verify
\* returned: the results are the records of all the actions in plan order,
\* each record is exactly one of succeeded, failed and skipped, and the three
\* counters count them, so succeeded + failed + skipped = totalActions.
C21_ContinueOnError ==
    (ApplyRunning /\ opts.continueOnError /\ pc = "done") =>
        /\ result.totalActions = Len(plan.actions)
        /\ Len(result.actions) = result.totalActions
        /\ \A i \in 1..Len(result.actions) : result.actions[i].action = plan.actions[i]
        /\ result.succeeded = Cardinality(SucceededRecords)
        /\ result.failed = Cardinality(FailedRecords)
        /\ result.skipped = Cardinality(SkippedRecords)
        /\ result.succeeded + result.failed + result.skipped = result.totalActions

\* a finished live run with continueOnError in which the first action's
\* Execute failed, a later Verify failed and every action has its record
C21_Witness ==
    /\ LiveRun
    /\ opts.continueOnError
    /\ pc = "done"
    /\ Len(plan.actions) = MaxPlanLen
    /\ Len(result.actions) = MaxPlanLen
    /\ result.failed >= 2
    /\ \E k \in 1..Len(calls) :
          calls[k].op = "Execute" /\ calls[k].idx = 1 /\ calls[k].err # ""
    /\ \E k \in 1..Len(calls) : calls[k].op = "Verify" /\ ~calls[k].ok

\* C22 (verification decides success): in a live run a record says succeeded
\* only if Execute returned no error for the action and Verify then returned
\* true without error; a Verify error is recorded as failed with the message
\* "verification failed: <error>" and a Verify result of false as failed with
\* "post-condition not met", for either value of continueOnError, and the
\* failed counter counts the failed records.
C22_VerifyDecidesSuccess ==
    LiveRun =>
        /\ \A i \in 1..Len(result.actions) :
              result.actions[i].success =>
                  \E k \in 1..(Len(calls) - 1) :
                      /\ calls[k].op = "Execute" /\ calls[k].idx = i /\ calls[k].err = ""
                      /\ calls[k + 1].op = "Verify" /\ calls[k + 1].idx = i
                      /\ calls[k + 1].ok /\ calls[k + 1].err = ""
        /\ \A k \in 1..Len(calls) :
              (calls[k].op = "Verify" /\ calls[k].idx <= Len(result.actions)) =>
                  LET r == result.actions[calls[k].idx] IN
                  /\ calls[k].err # "" =>
                        ~r.success /\ r.error = "verification failed: " \o calls[k].err
                  /\ (calls[k].err = "" /\ ~calls[k].ok) =>
                        ~r.success /\ r.error = "post-condition not met"
                  /\ (calls[k].err = "" /\ calls[k].ok) => r.success
        /\ pc = "done" => result.failed = Cardinality(FailedRecords)
        /\ result.failed >=
              Cardinality({k \in 1..Len(calls) : calls[k].op = "Verify" /\ ~calls[k].ok})

\* a finished run without continueOnError in which one Verify returned an
\* error, another returned false and a third action succeeded
C22_Witness ==
    /\ LiveRun
    /\ ~opts.continueOnError
    /\ pc = "done"
    /\ result.failed = 2
    /\ result.succeeded = 1
    /\ \E j, k \in 1..Len(calls) :
          /\ calls[j].op = "Verify" /\ calls[j].err # ""
          /\ calls[k].op = "Verify" /\ calls[k].err = "" /\ ~calls[k].ok

\* Plan has returned a plan for a diagnosis that is not healthy
StuckPlanned == PlanReturned /\ ~IsHealthy(diagnosis)

\* the positions of the plan's actions of escalation level L
AtLevel(L) == {i \in 1..Len(PlannedActions) : PlannedActions[i].escalationLevel = L}

\* the actions without their ids
Unnumbered(actions) == [i \in 1..Len(actions) |-> [actions[i] EXCEPT !.id = ""]]

\* the actions of level L of a list, in order
RECURSIVE OfLevel(_, _)
OfLevel(actions, L) ==
    IF actions = <<>> THEN <<>>
    ELSE (IF Head(actions).escalationLevel = L THEN <<Head(actions)>> ELSE <<>>)
         \o OfLevel(Tail(actions), L)

\* the target the level-2 action of blocker b is to have
BlockerTarget(b) ==
    [kind |-> b.kind, apiVersion |-> b.apiVersion, name |-> b.name,
     namespace |-> IF b.namespace # "" THEN b.namespace ELSE diagnosis.target.namespace]

JsonPatchTail == " -p '{\"metadata\":{\"finalizers\":null}}' --type=merge"

\* the two shapes of a patch command: with and without a "-n <namespace>" clause
PatchWithNamespace(t) ==
    "kubectl patch " \o (IF t.kind = "" THEN "resource" ELSE t.kind) \o " " \o t.name
        \o " -n " \o t.namespace \o JsonPatchTail

PatchWithoutNamespace(t) ==
    "kubectl patch " \o (IF t.kind = "" THEN "resource" ELSE t.kind) \o " " \o t.name
        \o JsonPatchTail

\* C23 (level 2 emission): for a non-healthy diagnosis the plan has no
\* level-2 action below ceiling 2 and, from ceiling 2 on, exactly one per
\* blocker, whatever allowForce is: a patch of risk Medium that does not
\* require force, on the blocker's kind, apiVersion and name, in the blocker's
\* namespace or, if that is empty, the diagnosis target's; its command has a
\* "-n <namespace>" clause iff that namespace is not empty.
C23_Level2Emission ==
    StuckPlanned =>
        /\ maxEscalation < EscalationFinalizer => AtLevel(EscalationFinalizer) = {}
        /\ maxEscalation >= EscalationFinalizer =>
              /\ Cardinality(AtLevel(EscalationFinalizer)) = Len(diagnosis.blockers)
              /\ \A j \in 1..Len(diagnosis.blockers) :
                    LET t == BlockerTarget(diagnosis.blockers[j]) IN
                    Cardinality({i \in AtLevel(EscalationFinalizer) :
                                     PlannedActions[i].target = t})
                      = Cardinality({k \in 1..Len(diagnosis.blockers) :
                                         BlockerTarget(diagnosis.blockers[k]) = t})
        /\ \A i \in AtLevel(EscalationFinalizer) :
              LET a == PlannedActions[i] IN
              /\ a.type = ActionPatch
              /\ a.risk = RiskMedium
              /\ ~a.requiresForce
              /\ a.target.namespace # "" => a.command = PatchWithNamespace(a.target)
              /\ a.target.namespace = "" => a.command = PatchWithoutNamespace(a.target)
        /\ Unnumbered(OfLevel(Plan(diagnosis, maxEscalation, ~allowForce).plan.actions,
                              EscalationFinalizer))
              = Unnumbered(OfLevel(PlannedActions, EscalationFinalizer))

\* a plan at ceiling 2 without force for a target in namespace ns1 with a
\* blocker that has no namespace and a blocker in namespace ns2
C23_Witness ==
    /\ StuckPlanned
    /\ maxEscalation = EscalationFinalizer
    /\ ~allowForce
    /\ diagnosis.target.namespace = "ns1"
    /\ Len(diagnosis.blockers) = MaxBlockers
    /\ diagnosis.blockers[1].namespace = ""
    /\ diagnosis.blockers[2].namespace = "ns2"
    /\ \E i, j \in AtLevel(EscalationFinalizer) :
          /\ PlannedActions[i].target.namespace = "ns1"
          /\ PlannedActions[j].target.namespace = "ns2"

\* C24 (level 4 emission): the plan has a level-4 action iff the diagnosis
\* is not healthy, its target type is namespace, it has discovery failures,
\* the ceiling is 4 and allowForce is set; then it has exactly one: a
\* finalize of kind Namespace with the diagnosis target's name, of risk
\* Critical, requiring force, whose command goes to the finalize endpoint.
C24_Level4Emission ==
    PlanReturned =>
        /\ AtLevel(EscalationForce) # {} <=>
              /\ ~IsHealthy(diagnosis)
              /\ diagnosis.targetType = TargetTypeNamespace
              /\ Len(diagnosis.discoveryFailures) > 0
              /\ maxEscalation >= EscalationForce
              /\ allowForce
        /\ Cardinality(AtLevel(EscalationForce)) <= 1
        /\ \A i \in AtLevel(EscalationForce) :
              LET a == PlannedActions[i] IN
              /\ a.type = ActionFinalize
              /\ a.target.kind = "Namespace"
              /\ a.target.name = diagnosis.target.name
              /\ a.target.namespace = ""
              /\ a.risk = RiskCritical
              /\ a.requiresForce
              /\ a.command =
                    "kubectl get namespace " \o diagnosis.target.name
                        \o " -o json | jq '.spec.finalizers = []' | kubectl replace --raw "
                        \o "\"/api/v1/namespaces/" \o diagnosis.target.name
                        \o "/finalize\" -f -"
        /\ \A i \in 1..Len(PlannedActions) :
              PlannedActions[i].type = ActionFinalize => i \in AtLevel(EscalationForce)

\* a plan whose last action is the force-finalize of the namespace, after
\* the level-2 actions of its blockers
C24_Witness ==
    /\ StuckPlanned
    /\ diagnosis.targetType = TargetTypeNamespace
    /\ diagnosis.target.kind = "Namespace"
    /\ Len(diagnosis.blockers) = MaxBlockers
    /\ AtLevel(EscalationForce) = {Len(PlannedActions)}
    /\ AtLevel(EscalationFinalizer) # {}

\* C25 (level 3 emission): the plan has a level-3 action iff the diagnosis
\* is not healthy, its target type is crd, the ceiling is at least 3 and
\* allowForce is set; then it has exactly one: a patch of risk High requiring
\* force whose target is of kind CustomResourceDefinition, apiVersion
\* apiextensions.k8s.io/v1, no namespace and the diagnosis target's name,
\* whatever kind, apiVersion and namespace the diagnosis target has.
C25_Level3Emission ==
    PlanReturned =>
        /\ AtLevel(EscalationCRD) # {} <=>
              /\ ~IsHealthy(diagnosis)
              /\ diagnosis.targetType = TargetTypeCRD
              /\ maxEscalation >= EscalationCRD
              /\ allowForce
        /\ Cardinality(AtLevel(EscalationCRD)) <= 1
        /\ \A i \in AtLevel(EscalationCRD) :
              LET a == PlannedActions[i] IN
              /\ a.type = ActionPatch
              /\ a.target = [kind |-> "CustomResourceDefinition",
                             apiVersion |-> "apiextensions.k8s.io/v1",
                             namespace |-> "", name |-> diagnosis.target.name]
              /\ a.risk = RiskHigh
              /\ a.requiresForce

\* a plan with a level-3 action for a crd diagnosis whose target came in as
\* a namespaced Certificate
C25_Witness ==
    /\ StuckPlanned
    /\ diagnosis.targetType = TargetTypeCRD
    /\ diagnosis.target.kind = "Certificate"
    /\ diagnosis.target.namespace = "ns1"
    /\ maxEscalation = EscalationCRD
    /\ AtLevel(EscalationCRD) = {Len(PlannedActions)}

\* C26 (level 0 emission): for a non-healthy diagnosis and any configuration
\* the plan has exactly one inspect action, on the diagnosis target, and
\* exactly one list action iff there are blockers; they are the only level-0
\* actions and have risk None, no force requirement and no command.  At
\* ceiling 0 with a blocker the plan is these two actions.
C26_Level0Emission ==
    StuckPlanned =>
        LET inspects == {i \in 1..Len(PlannedActions) :
                             PlannedActions[i].type = ActionInspect}
            lists == {i \in 1..Len(PlannedActions) : PlannedActions[i].type = ActionList}
        IN
        /\ Cardinality(inspects) = 1
        /\ Cardinality(lists) = IF Len(diagnosis.blockers) > 0 THEN 1 ELSE 0
        /\ AtLevel(EscalationInfo) = inspects \cup lists
        /\ \A i \in AtLevel(EscalationInfo) :
              /\ PlannedActions[i].target = diagnosis.target
              /\ PlannedActions[i].risk = RiskNone
              /\ ~PlannedActions[i].requiresForce
              /\ PlannedActions[i].command = ""
        /\ (maxEscalation = EscalationInfo /\ Len(diagnosis.blockers) > 0) =>
              /\ Len(PlannedActions) = 2
              /\ PlannedActions[1].type = ActionInspect
              /\ PlannedActions[2].type = ActionList

\* plans at ceiling 4 for a diagnosis without blockers: one inspect, no list
C26_Witness ==
    /\ StuckPlanned
    /\ maxEscalation = EscalationForce
    /\ allowForce
    /\ Len(diagnosis.blockers) = 0
    /\ hasAvailableController(diagnosis)
    /\ Cardinality(AtLevel(EscalationInfo)) = 1
    /\ Len(PlannedActions) >= 3

\* C27 (level 1 emission): the plan has a level-1 action iff the diagnosis
\* is not healthy, the ceiling is at least 1 and some controller of the
\* diagnosis is both available and ready; then it has exactly one: a wait on
\* the diagnosis target of risk Low, without force requirement or command.
C27_Level1Emission ==
    PlanReturned =>
        /\ AtLevel(EscalationClean) # {} <=>
              /\ ~IsHealthy(diagnosis)
              /\ maxEscalation >= EscalationClean
              /\ \E k \in 1..Len(diagnosis.controllers) :
                    diagnosis.controllers[k].available /\ diagnosis.controllers[k].ready
        /\ Cardinality(AtLevel(EscalationClean)) <= 1
        /\ \A i \in AtLevel(EscalationClean) :
              LET a == PlannedActions[i] IN
              /\ a.type = ActionWait
              /\ a.target = diagnosis.target
              /\ a.risk = RiskLow
              /\ ~a.requiresForce
              /\ a.command = ""
        /\ \A i \in 1..Len(PlannedActions) :
              PlannedActions[i].type = ActionWait => i \in AtLevel(EscalationClean)

\* a plan with a wait action for a diagnosis whose first controller is not
\* available and whose second is available and ready
C27_Witness ==
    /\ StuckPlanned
    /\ maxEscalation = EscalationClean
    /\ Len(diagnosis.controllers) = 2
    /\ ~diagnosis.controllers[1].available
    /\ Len(diagnosis.blockers) = 0
    /\ AtLevel(EscalationClean) = {2}

\* the actions, without ids, of the plan for the diagnosis at ceiling m with
\* allowForce f
ActionsAt(m, f) ==
    LET actions == Plan(diagnosis, m, f).plan.actions
    IN {[actions[i] EXCEPT !.id = ""] : i \in 1..Len(actions)}

\* C28 (levels are additive): for the diagnosis of the plan, a higher
\* ceiling with the same allowForce, and allowForce set instead of unset at
\* the same ceiling, never take an action away: every action of the plan
\* (ids aside) is in those larger plans.  Hence a plan with a level-3 or
\* level-4 action has the level-2 patch action of every blocker.
C28_LevelsAdditive ==
    PlanReturned =>
        /\ ActionsAt(maxEscalation, allowForce)
              = {[PlannedActions[i] EXCEPT !.id = ""] : i \in 1..Len(PlannedActions)}
        /\ \A m \in Levels :
              m > maxEscalation =>
                  /\ ActionsAt(maxEscalation, allowForce) \subseteq ActionsAt(m, allowForce)
                  /\ Len(Plan(diagnosis, m, allowForce).plan.actions) >= Len(PlannedActions)
        /\ ActionsAt(maxEscalation, FALSE) \subseteq ActionsAt(maxEscalation, TRUE)
        /\ (AtLevel(EscalationCRD) # {} \/ AtLevel(EscalationForce) # {}) =>
              \A j \in 1..Len(diagnosis.blockers) :
                  \E i \in AtLevel(EscalationFinalizer) :
                      /\ PlannedActions[i].type = ActionPatch
                      /\ PlannedActions[i].target = BlockerTarget(diagnosis.blockers[j])

\* a plan at ceiling 1 without force, with its wait action, for a stuck
\* namespace with blockers whose plan at ceiling 4 with force has more actions
C28_Witness ==
    /\ StuckPlanned
    /\ maxEscalation = EscalationClean
    /\ ~allowForce
    /\ AtLevel(EscalationClean) # {}
    /\ Len(diagnosis.blockers) = MaxBlockers
    /\ Cardinality(ActionsAt(EscalationForce, TRUE)) > Cardinality(ActionsAt(maxEscalation, FALSE))
    /\ Len(PlannedActions) = 3

\* the prompts that were not answered affirmatively
DeclinedPrompts ==
    {k \in 1..Len(calls) : calls[k].op = "confirm" /\ ~Affirmative(calls[k])}

\* C30 (declined confirmation is the only source of skipped): at every point
\* of a run skipped is the number of prompts answered non-affirmatively, each
\* for a different action that requires force, and the number of records
\* "skipped by user"; it stays 0, without any prompt, when dryRun or
\* autoConfirm is set or no action of the plan requires force.  The prompt
\* never adds to failed: failed is the number of Execute calls that returned
\* an error plus the number of Verify calls that did not return true.
C30_SkippedOnlyByDecline ==
    ApplyRunning =>
        /\ result.skipped = Cardinality(DeclinedPrompts)
        /\ result.skipped = Cardinality(SkippedRecords)
        /\ \A k \in DeclinedPrompts :
              /\ plan.actions[calls[k].idx].requiresForce
              /\ \A j \in DeclinedPrompts : calls[j].idx = calls[k].idx => j = k
        /\ (opts.dryRun \/ opts.autoConfirm \/ ~HasForceActions(plan.actions)) =>
              /\ result.skipped = 0
              /\ \A k \in 1..Len(calls) : calls[k].op # "confirm"
        /\ result.failed =
              Cardinality({k \in 1..Len(calls) : calls[k].op = "Execute" /\ calls[k].err # ""})
              + Cardinality({k \in 1..Len(calls) : calls[k].op = "Verify" /\ ~calls[k].ok})

\* a finished run in which two prompts were declined, one of them by a
\* failed read, and the remaining action succeeded
C30_Witness ==
    /\ LiveRun
    /\ pc = "done"
    /\ result.skipped = 2
    /\ result.failed = 0
    /\ result.succeeded = 1
    /\ \E k \in DeclinedPrompts : calls[k].scanErr = "expected newline"
    /\ \E k \in DeclinedPrompts : calls[k].response = "n"

\* the positions of the actions of escalation level L in a list
LevelPositions(actions, L) ==
    {i \in 1..Len(actions) : actions[i].escalationLevel = L}

\* the positions of the level-3 CRD patch and the level-4 namespace finalize
ParentPositions(actions) ==
    LevelPositions(actions, EscalationCRD) \cup LevelPositions(actions, EscalationForce)

\* the loop has finished with the action at position i: its record is in
\* the result
Processed(i) ==
    /\ i <= Len(result.actions)
    /\ result.actions[i].action = plan.actions[i]

\* C29 (children before parents, end to end): in every plan Plan returns the
\* level-2 actions, which are the patches of the blockers, all come before
\* the level-3 CRD patch and the level-4 namespace finalize; Apply is run
\* over that plan, and whenever Execute has been called for a level-3 or
\* level-4 action every level-2 action of the plan lies before it and has
\* already been processed by the loop.
C29_ChildrenBeforeParents ==
    /\ (planPc = "planned" /\ planOut.err = "") =>
          /\ \A i \in LevelPositions(PlannedActions, EscalationFinalizer) :
                /\ PlannedActions[i].type = ActionPatch
                /\ \E b \in 1..Len(diagnosis.blockers) :
                      PlannedActions[i].target = BlockerTarget(diagnosis.blockers[b])
                /\ \A j \in ParentPositions(PlannedActions) : i < j
          /\ \A j \in ParentPositions(PlannedActions) :
                \/ /\ PlannedActions[j].escalationLevel = EscalationCRD
                   /\ PlannedActions[j].type = ActionPatch
                   /\ PlannedActions[j].target.kind = "CustomResourceDefinition"
                \/ /\ PlannedActions[j].escalationLevel = EscalationForce
                   /\ PlannedActions[j].type = ActionFinalize
                   /\ PlannedActions[j].target.kind = "Namespace"
    /\ ApplyRunning =>
          /\ plan = planOut.plan
          /\ \A k \in 1..Len(calls) :
                (calls[k].op = "Execute" /\ calls[k].idx \in ParentPositions(plan.actions)) =>
                    \A i \in LevelPositions(plan.actions, EscalationFinalizer) :
                        i < calls[k].idx /\ Processed(i)

\* a finished run over a plan with two blocker patches and the namespace
\* finalize: the first patch failed, the second succeeded, and Execute was
\* then called for the finalize
C29_Witness ==
    /\ LiveRun
    /\ pc = "done"
    /\ plan = planOut.plan
    /\ Cardinality(LevelPositions(plan.actions, EscalationFinalizer)) = 2
    /\ LevelPositions(plan.actions, EscalationForce) # {}
    /\ \E k \in 1..Len(calls) :
          /\ calls[k].op = "Execute"
          /\ calls[k].idx \in LevelPositions(plan.actions, EscalationForce)
    /\ \E i, j \in LevelPositions(plan.actions, EscalationFinalizer) :
          /\ i < j
          /\ ~result.actions[i].success
          /\ result.actions[j].success

(***************************************************************************)
(* Properties of TopologicalSort, stated of SpecTopo                       *)
(***************************************************************************)
\* TopologicalSort has returned
TopoReturned == topo.pc \in {"sorted", "resorted"}

\* the results of the calls made so far
TopoOutputs == IF topo.pc = "resorted" THEN {topo.out, topo.again} ELSE {topo.out}

TargetKeys(actions) == {resourceKey(actions[i].target) : i \in 1..Len(actions)}

\* the owners the map gives for a key
OwnersOf(ownerRefs, key) ==
    IF key \in DOMAIN ownerRefs
    THEN {ownerRefs[key][i] : i \in 1..Len(ownerRefs[key])} ELSE {}

\* the keys reached from a set of keys by following at most n owner edges
RECURSIVE Ancestors(_, _, _)
Ancestors(ownerRefs, keys, n) ==
    IF n = 0 THEN keys
    ELSE LET up == UNION {OwnersOf(ownerRefs, k) : k \in keys}
         IN up \cup Ancestors(ownerRefs, up, n - 1)

\* no key is among its own ancestors
Acyclic(ownerRefs) ==
    \A k \in DOMAIN ownerRefs :
        k \notin Ancestors(ownerRefs, OwnersOf(ownerRefs, k), Cardinality(TopoKeys))

DistinctKeys(actions) ==
    \A i, j \in 1..Len(actions) :
        resourceKey(actions[i].target) = resourceKey(actions[j].target) => i = j

\* the positions of the actions with this key in a list
PositionsOf(actions, key) ==
    {i \in 1..Len(actions) : resourceKey(actions[i].target) = key}

\* the edges key -> owner between targets of the actions
TargetEdges(ownerRefs, actions) ==
    {e \in TargetKeys(actions) \X TargetKeys(actions) : e[2] \in OwnersOf(ownerRefs, e[1])}

\* C32 (children before parents): for a non-empty acyclic owner map and
\* actions with pairwise distinct keys, for every edge key -> owner between
\* targets of the actions, the action of the key is in the output and comes
\* before the action of the owner.
C32_ChildrenBeforeOwners ==
    (/\ TopoReturned
     /\ DOMAIN topo.ownerRefs # {}
     /\ Acyclic(topo.ownerRefs)
     /\ DistinctKeys(topo.actions)) =>
        \A out \in TopoOutputs :
            \A e \in TargetEdges(topo.ownerRefs, topo.actions) :
                /\ PositionsOf(out, e[1]) # {}
                /\ PositionsOf(out, e[2]) # {}
                /\ \A i \in PositionsOf(out, e[1]) :
                      \A j \in PositionsOf(out, e[2]) : i < j

\* a chain of two edges over three actions given parent first: the output
\* is the input reversed
C32_Witness ==
    /\ TopoReturned
    /\ Acyclic(topo.ownerRefs)
    /\ DistinctKeys(topo.actions)
    /\ Len(topo.actions) = 3
    /\ Cardinality(TargetEdges(topo.ownerRefs, topo.actions)) = 2
    /\ topo.out = Reverse(topo.actions)
    /\ \E e \in TargetEdges(topo.ownerRefs, topo.actions) :
          /\ PositionsOf(topo.actions, e[2]) = {1}
          /\ PositionsOf(topo.out, e[2]) = {3}

\* C33 (determinism): two calls of TopologicalSort with the same actions and
\* the same owner map return the same sequence, whatever order each call's
\* range over the owner map visits its keys in.
C33_Deterministic ==
    topo.pc = "resorted" => topo.again = topo.out

\* the key appears in the owner map, as a key or as an owner
InEdgeMap(ownerRefs, key) ==
    \/ key \in DOMAIN ownerRefs
    \/ \E k \in DOMAIN ownerRefs : key \in OwnersOf(ownerRefs, k)

\* the actions of a list whose keys appear nowhere in the owner map, in order
RECURSIVE Unrelated(_, _)
Unrelated(ownerRefs, actions) ==
    IF actions = <<>> THEN <<>>
    ELSE (IF InEdgeMap(ownerRefs, resourceKey(Head(actions).target))
          THEN <<>> ELSE <<Head(actions)>>)
         \o Unrelated(ownerRefs, Tail(actions))

\* C34 (unrelated actions last): with a non-empty owner map, every action
\* whose key appears nowhere in the map comes after every action whose key
\* appears in it, and the unrelated actions keep their input order.
C34_UnrelatedLast ==
    (TopoReturned /\ DOMAIN topo.ownerRefs # {}) =>
        \A out \in TopoOutputs :
            /\ \A i, j \in 1..Len(out) :
                  (/\ ~InEdgeMap(topo.ownerRefs, resourceKey(out[i].target))
                   /\ InEdgeMap(topo.ownerRefs, resourceKey(out[j].target))) => j < i
            /\ Unrelated(topo.ownerRefs, out) = Unrelated(topo.ownerRefs, topo.actions)

\* C39 (permutation): what TopologicalSort returns has every action of its
\* input as often as the input has it, for every owner map.
C39_Permutation ==
    TopoReturned =>
        \A out \in TopoOutputs :
            /\ Len(out) = Len(topo.actions)
            /\ \A a \in TopoActionPool :
                  Occurrences(out, a) = Occurrences(topo.actions, a)

\* the two lists have the same length and every action as often
SameActions(s, t) ==
    /\ Len(s) = Len(t)
    /\ \A i \in 1..Len(s) : Occurrences(t, s[i]) = Occurrences(s, s[i])

\* the actions without the IDs Plan gives them after the ordering
WithoutIds(actions) == [i \in 1..Len(actions) |-> [actions[i] EXCEPT !.id = ""]]

\* the actions levels 0 to 4 emit for the diagnosis: none for a healthy
\* target, for which Plan returns before level 0
EmittedActions ==
    IF IsHealthy(diagnosis) THEN <<>>
    ELSE levelActions(diagnosis, maxEscalation, allowForce)

\* C40 (OrderByDependencies returns a permutation): the result has the
\* length of the argument and every action as often as the argument has it,
\* also when several actions share level, kind and name; after the call
\* the caller's slice holds what it held when it was given; an empty
\* argument gives an empty result.  Hence the plan Planner.Plan returns
\* holds, apart from the IDs, exactly the actions levels 0 to 4 emit, each
\* as often as emitted, and they are what OrderByDependencies returns for
\* the list of them.
C40_OrderIsPermutation ==
    /\ ordPc \in {"ordered", "reordered"} =>
          /\ SameActions(ordPrev, ordOut)
          /\ ordPrev = <<>> => ordOut = <<>>
    /\ ordPc = "ordered" => ordIn = ordPrev
    /\ (PlanReturned /\ planOut.err = "") =>
          /\ SameActions(EmittedActions, WithoutIds(PlannedActions))
          /\ (ordPc = "ordered" /\ ordPrev = EmittedActions) =>
                WithoutIds(PlannedActions) = ordOut

\* Plan has returned a plan for a diagnosis with the same blocker twice,
\* and OrderByDependencies has been called on the list of the emitted
\* actions, which has the patch of that blocker twice: so has the plan
C40_Witness ==
    /\ PlanReturned
    /\ planOut.err = ""
    /\ ordPc = "ordered"
    /\ ordPrev = EmittedActions
    /\ Len(ordOut) = Len(ordPrev)
    /\ \E i, j \in 1..Len(ordPrev) :
          /\ i < j
          /\ ordPrev[i] = ordPrev[j]
          /\ ordPrev[i].type = ActionPatch
    /\ \E i, j \in 1..Len(PlannedActions) :
          /\ i < j
          /\ WithoutIds(PlannedActions)[i] = WithoutIds(PlannedActions)[j]

\* succeeded + failed + skipped
CounterSum(res) == res.succeeded + res.failed + res.skipped

\* C35 as claimed (counter accounting): at every point of the loop and on
\* return, succeeded + failed + skipped is the number of records and at most
\* totalActions.
C35_CounterAccountingAsClaimed ==
    ApplyRunning =>
        /\ CounterSum(result) = Len(result.actions)
        /\ CounterSum(result) <= result.totalActions

\* C35 (counter accounting): totalActions is the length of the plan and
\* succeeded + failed + skipped never exceeds it.  At the head of every
\* iteration, up to the return of Verify, and on return the sum is the number
\* of records, each record being counted by exactly one counter; while the
\* after snapshot of a verbose live run is taken the action's counter is
\* already incremented and its record not yet appended, so the sum is one
\* more.  On return the sum is below totalActions only if the loop was left
\* by the break after an Execute error without continueOnError.
C35_CounterAccounting ==
    ApplyRunning =>
        /\ result.totalActions = Len(plan.actions)
        /\ CounterSum(result) <= result.totalActions
        /\ Len(result.actions) <= result.totalActions
        /\ pc # "snapshotAfter" =>
              /\ CounterSum(result) = Len(result.actions)
              /\ result.succeeded = Cardinality(SucceededRecords)
              /\ result.failed = Cardinality(FailedRecords)
              /\ result.skipped = Cardinality(SkippedRecords)
        /\ pc = "snapshotAfter" =>
              /\ CounterSum(result) = Len(result.actions) + 1
              /\ result.succeeded = Cardinality(SucceededRecords) + (IF cur.success THEN 1 ELSE 0)
              /\ result.failed = Cardinality(FailedRecords) + (IF cur.success THEN 0 ELSE 1)
              /\ result.skipped = Cardinality(SkippedRecords)
        /\ (pc = "done" /\ CounterSum(result) < result.totalActions) =>
              /\ ~opts.continueOnError
              /\ calls # <<>>
              /\ calls[Len(calls)].op = "Execute"
              /\ calls[Len(calls)].err # ""

\* a verbose live run is taking the after snapshot of its second action:
\* one action has succeeded, the second has been counted as failed, and
\* only the first has its record
C35_Witness ==
    /\ LiveRun
    /\ pc = "snapshotAfter"
    /\ idx = 2
    /\ result.succeeded = 1
    /\ result.failed = 1
    /\ Len(result.actions) = 1

\* the prompts shown for the action at position i
PromptsFor(i) == {k \in 1..Len(calls) : calls[k].op = "confirm" /\ calls[k].idx = i}

\* C37 (risk and force follow the level): every action of a plan returned
\* by Plan has risk = RiskLevelFromEscalation(level) and requiresForce =
\* (level >= 3).  In a run over that plan a confirmation prompt is shown
\* only for level-3 and level-4 actions, never for a level-0, 1 or 2 action;
\* unless dryRun or autoConfirm is set, every level-3 or level-4 action that
\* was processed had its prompt, and with either of them set no prompt is
\* shown.
C37_RiskAndForceFollowLevel ==
    /\ (planPc = "planned" /\ planOut.err = "") =>
          \A i \in 1..Len(PlannedActions) :
              /\ PlannedActions[i].risk =
                    RiskLevelFromEscalation(PlannedActions[i].escalationLevel)
              /\ PlannedActions[i].requiresForce =
                    (PlannedActions[i].escalationLevel >= EscalationCRD)
    /\ ApplyRunning =>
          /\ \A k \in 1..Len(calls) :
                calls[k].op = "confirm" =>
                    plan.actions[calls[k].idx].escalationLevel
                        \in {EscalationCRD, EscalationForce}
          /\ \A i \in 1..Len(result.actions) :
                IF /\ plan.actions[i].escalationLevel >= EscalationCRD
                   /\ ~opts.dryRun
                   /\ ~opts.autoConfirm
                THEN Cardinality(PromptsFor(i)) = 1
                ELSE PromptsFor(i) = {}

\* a finished live run without autoConfirm over a plan with a wait action,
\* a blocker patch and the namespace finalize: only the finalize was
\* prompted for, and it was executed
C37_Witness ==
    /\ LiveRun
    /\ ~opts.autoConfirm
    /\ pc = "done"
    /\ LevelPositions(plan.actions, EscalationClean) # {}
    /\ LevelPositions(plan.actions, EscalationFinalizer) # {}
    /\ \E i \in LevelPositions(plan.actions, EscalationForce) :
          /\ PromptsFor(i) # {}
          /\ \E k \in 1..Len(calls) : calls[k].op = "Execute" /\ calls[k].idx = i
    /\ Cardinality({k \in 1..Len(calls) : calls[k].op = "confirm"}) = 1

ReadOnlyTypes == {ActionInspect, ActionList, ActionWait}

\* the errors of the Executor for an action it has no case for
UnsupportedErrors ==
    {"unknown action type", "unknown action type for verification",
     "finalize action only supports Namespace"}

\* C38 (planned actions are executable): every action of a plan returned by
\* Plan has a type among inspect, list, wait, patch and finalize, and every
\* finalize action targets a Namespace.  In a run over that plan no call of
\* Execute or Verify returns an unknown-action-type or unsupported-target
\* error; every inspect, list or wait action processed by a live run is
\* recorded as succeeded; and write requests are issued only by the Execute
\* calls of patch and finalize actions.
C38_PlannedActionsExecutable ==
    /\ (planPc = "planned" /\ planOut.err = "") =>
          \A i \in 1..Len(PlannedActions) :
              /\ PlannedActions[i].type
                    \in ReadOnlyTypes \cup {ActionPatch, ActionFinalize}
              /\ PlannedActions[i].type = ActionFinalize =>
                    PlannedActions[i].target.kind = "Namespace"
    /\ ApplyRunning =>
          /\ \A k \in 1..Len(calls) : calls[k].err \notin UnsupportedErrors
          /\ ~opts.dryRun =>
                \A i \in 1..Len(result.actions) :
                    plan.actions[i].type \in ReadOnlyTypes =>
                        /\ result.actions[i].success
                        /\ result.actions[i].error = ""
                        /\ \E k \in 1..Len(calls) :
                              /\ calls[k].op = "Verify"
                              /\ calls[k].idx = i
                              /\ calls[k].ok
          /\ writes <= Cardinality({k \in 1..Len(calls) :
                                       /\ calls[k].op = "Execute"
                                       /\ StateChanging(plan.actions[calls[k].idx])})

\* a finished live run over a plan with inspect, list, wait, a patch and
\* the finalize: the three read-only actions succeeded, the patch failed
\* after its write, and the finalize was executed
C38_Witness ==
    /\ LiveRun
    /\ pc = "done"
    /\ \A t \in ReadOnlyTypes :
          \E i \in 1..Len(result.actions) :
              plan.actions[i].type = t /\ result.actions[i].success
    /\ \E i \in 1..Len(result.actions) :
          plan.actions[i].type = ActionPatch /\ ~result.actions[i].success
    /\ \E k \in 1..Len(calls) :
          calls[k].op = "Execute" /\ plan.actions[calls[k].idx].type = ActionFinalize
    /\ writes >= 2

(***************************************************************************)
(* Properties of the Executor on the cluster, stated of SpecCluster        *)
(***************************************************************************)
\* the calls of Execute made for finalize actions
FinalizeCalls ==
    {k \in 1..Len(calls) :
         calls[k].op = "Execute" /\ plan.actions[calls[k].idx].type = ActionFinalize}

\* the errors Execute returns when the Get of executeFinalize has failed
GetNamespaceErrors == {getNamespaceError(e) : e \in GetFailures \cup {"not found"}}

\* C31 (executeFinalize): Execute of a finalize action whose target is not
\* a Namespace returns the unsupported-target error and issues no read and
\* no write.  For a Namespace it issues the Get first: if the Get fails the
\* call returns "failed to get namespace" with one read and no write;
\* otherwise it issues one write, the Finalize request, and when that
\* succeeds the namespace is left without spec finalizers.  Between the two
\* requests the call holds the namespace it has read and has not returned.
C31_ExecuteFinalize ==
    /\ ApplyRunning =>
        \A k \in FinalizeCalls :
            LET target == plan.actions[calls[k].idx].target IN
            IF target.kind # "Namespace"
            THEN /\ calls[k].err = "finalize action only supports Namespace"
                 /\ calls[k].reads = 0
                 /\ calls[k].writes = 0
            ELSE /\ calls[k].reads = 1
                 /\ calls[k].err \in {"", "finalize failed"} \cup GetNamespaceErrors
                 /\ calls[k].writes = (IF calls[k].err \in GetNamespaceErrors
                                        THEN 0 ELSE 1)
                 /\ calls[k].err = "" =>
                       ~Lookup(cluster, resourceKey(target)).specFinalizers
    /\ pc = "finalize" =>
          /\ plan.actions[idx].type = ActionFinalize
          /\ plan.actions[idx].target.kind = "Namespace"
          /\ fetched.held
          /\ fetched.ns.exists
          /\ \A k \in FinalizeCalls : calls[k].idx # idx

\* a run in which Execute refused the finalize of a Pod without a request
\* and then finalized the namespace, which was terminating with spec
\* finalizers only and is gone now
C31_Witness ==
    /\ LiveRun
    /\ opts.continueOnError
    /\ reads = 1
    /\ writes = 1
    /\ \E j, k \in FinalizeCalls :
          /\ j < k
          /\ plan.actions[calls[j].idx].target.kind = "Pod"
          /\ calls[j].err = "finalize action only supports Namespace"
          /\ plan.actions[calls[k].idx].target.kind = "Namespace"
          /\ calls[k].err = ""
    /\ ~Lookup(cluster, resourceKey(ClusterNamespace)).exists

\* C36 (a patch that cleared the finalizers succeeds): in a live run in
\* which nothing but the Executor touches the objects, every patch action
\* whose Execute returned without error, and whose Verify could make its
\* Get, is recorded as succeeded; this includes a target that had a
\* deletionTimestamp and was removed when its finalizers were cleared.
C36_ClearedPatchSucceeds ==
    LiveRun =>
        \A i \in 1..Len(result.actions) :
            (/\ plan.actions[i].type = ActionPatch
             /\ \E k \in 1..Len(calls) :
                   calls[k].op = "Execute" /\ calls[k].idx = i /\ calls[k].err = ""
             /\ \E k \in 1..Len(calls) :
                   calls[k].op = "Verify" /\ calls[k].idx = i /\ calls[k].err \notin GetFailures)
                => result.actions[i].success

====
